---- MODULE Spec2Model ----
(***************************************************************************)
(* Students Affairs System: the shared DataTable engine (pagination, sort, *)
(* search, modal add/edit/delete workflow) and the four entity classes     *)
(* (Student, Course, Instructor, Employee) that extend it with a validator *)
(* and an overridden saveRecord.                                           *)
(*                                                                         *)
(* One table view is modelled for its lifetime (one loadPage).  Every      *)
(* async handler is split at its awaits: the synchronous part up to the    *)
(* fetch is one action, the continuation after the response is another.    *)
(* Requests in flight are kept in issue order and may resolve in any order.*)
(*                                                                         *)
(* Strings are sequences of one-character strings, so that trim, length,   *)
(* regular expressions, parseInt, parseFloat and toUpperCase are computed  *)
(* as the JavaScript computes them.                                        *)
(***************************************************************************)
EXTENDS Integers, Sequences, FiniteSets, TLC

(***************************************************************************)
(* Bounds of the model.                                                    *)
(***************************************************************************)
\* ids the REST collection can hand out (json-server assigns the next id)
MaxId == 3
\* requests of one view that may be pending at the same time
MaxInflight == 2
\* views loaded before the current one that the model keeps
MaxEarlier == 1

(***************************************************************************)
(* JavaScript values and string primitives.                                *)
(***************************************************************************)
\* null where a column name is expected, and NaN; a number n is held as <<n>>
Null == "null"
NaN == <<>>
Num(n) == <<n>>

LowerCase == <<"a","b","c","d","e","f","g","h","i","j","k","l","m",
               "n","o","p","q","r","s","t","u","v","w","x","y","z">>
UpperCase == <<"A","B","C","D","E","F","G","H","I","J","K","L","M",
               "N","O","P","Q","R","S","T","U","V","W","X","Y","Z">>
Digits == <<"0","1","2","3","4","5","6","7","8","9">>

IsSpace(c) == c \in {" ", "\t", "\n"}
IsDigit(c) == \E i \in 1..10 : Digits[i] = c
IsUpper(c) == \E i \in 1..26 : UpperCase[i] = c
DigitVal(c) == (CHOOSE i \in 1..10 : Digits[i] = c) - 1

\* String.prototype.toUpperCase on one character / on a string
UpperChar(c) ==
    IF \E i \in 1..26 : LowerCase[i] = c
    THEN UpperCase[CHOOSE i \in 1..26 : LowerCase[i] = c]
    ELSE c
RECURSIVE ToUpperCase(_)
ToUpperCase(s) ==
    IF s = <<>> THEN <<>> ELSE <<UpperChar(Head(s))>> \o ToUpperCase(Tail(s))

\* String.prototype.trim
RECURSIVE TrimLeft(_)
TrimLeft(s) == IF s # <<>> /\ IsSpace(Head(s)) THEN TrimLeft(Tail(s)) ELSE s
RECURSIVE TrimRight(_)
TrimRight(s) ==
    IF s # <<>> /\ IsSpace(s[Len(s)])
    THEN TrimRight(SubSeq(s, 1, Len(s) - 1))
    ELSE s
Trim(s) == TrimRight(TrimLeft(s))

\* the longest prefix of s made of digits
RECURSIVE DigitPrefix(_)
DigitPrefix(s) ==
    IF s # <<>> /\ IsDigit(Head(s))
    THEN <<Head(s)>> \o DigitPrefix(Tail(s))
    ELSE <<>>

RECURSIVE DigitsValue(_)
DigitsValue(s) ==
    IF s = <<>> THEN 0
    ELSE 10 * DigitsValue(SubSeq(s, 1, Len(s) - 1)) + DigitVal(s[Len(s)])

\* parseInt(s): leading white space skipped, optional sign, the longest
\* run of digits; whatever follows is ignored; NaN when there is no digit.
ParseInt(s) ==
    LET t == TrimLeft(s)
        neg == t # <<>> /\ Head(t) = "-"
        u == IF t # <<>> /\ Head(t) \in {"-", "+"} THEN Tail(t) ELSE t
        d == DigitPrefix(u)
    IN IF d = <<>> THEN NaN
       ELSE IF neg THEN Num(0 - DigitsValue(d)) ELSE Num(DigitsValue(d))

\* parseFloat(s), in hundredths (a number n stands for n / 100): optional
\* sign, digits, optionally "." and digits; the text after that prefix is
\* ignored; NaN when the prefix holds no digit.  Digits after the second
\* decimal are not representable here and are cut.
ParseFloat(s) ==
    LET t == TrimLeft(s)
        neg == t # <<>> /\ Head(t) = "-"
        u == IF t # <<>> /\ Head(t) \in {"-", "+"} THEN Tail(t) ELSE t
        ip == DigitPrefix(u)
        r == SubSeq(u, Len(ip) + 1, Len(u))
        fp == IF r # <<>> /\ Head(r) = "." THEN DigitPrefix(Tail(r)) ELSE <<>>
        f2 == SubSeq(fp \o <<"0", "0">>, 1, 2)
        mag == 100 * DigitsValue(ip) + DigitsValue(f2)
    IN IF ip = <<>> /\ fp = <<>> THEN NaN
       ELSE IF neg THEN Num(0 - mag) ELSE Num(mag)

\* /^[^\s@]+@[^\s@]+\.[^\s@]+$/.test(s)
EmailRegexTest(s) ==
    /\ \A i \in 1..Len(s) : ~IsSpace(s[i])
    /\ Cardinality({i \in 1..Len(s) : s[i] = "@"}) = 1
    /\ LET at == CHOOSE i \in 1..Len(s) : s[i] = "@"
       IN /\ at > 1
          /\ \E j \in (at + 2)..(Len(s) - 1) : s[j] = "."

\* /^[A-Z]{2,4}\d{3}$/.test(s)
CodeRegexTest(s) ==
    \E n \in 2..4 :
        /\ Len(s) = n + 3
        /\ \A i \in 1..n : IsUpper(s[i])
        /\ \A i \in (n + 1)..(n + 3) : IsDigit(s[i])

DaysInMonth(y, m) ==
    IF m = 2
    THEN (IF (y % 4 = 0 /\ y % 100 # 0) \/ y % 400 = 0 THEN 29 ELSE 28)
    ELSE IF m \in {4, 6, 9, 11} THEN 30 ELSE 31

\* new Date("YYYY-MM-DD") as a day ordinal that orders like the time
\* value; NaN (Invalid Date) for a string that is no such date.
ParseDate(s) ==
    IF /\ Len(s) = 10
       /\ s[5] = "-" /\ s[8] = "-"
       /\ \A i \in {1, 2, 3, 4, 6, 7, 9, 10} : IsDigit(s[i])
       /\ DigitsValue(SubSeq(s, 6, 7)) \in 1..12
       /\ DigitsValue(SubSeq(s, 9, 10)) \in
              1..DaysInMonth(DigitsValue(SubSeq(s, 1, 4)), DigitsValue(SubSeq(s, 6, 7)))
    THEN Num(10000 * DigitsValue(SubSeq(s, 1, 4))
             + 100 * DigitsValue(SubSeq(s, 6, 7))
             + DigitsValue(SubSeq(s, 9, 10)))
    ELSE NaN

\* a relational comparison with NaN on either side is false
Lt(a, b) == a # NaN /\ b # NaN /\ a[1] < b[1]
Gt(a, b) == a # NaN /\ b # NaN /\ a[1] > b[1]

(***************************************************************************)
(* The validators of the four entity classes.  data maps the names of the  *)
(* form's fields to the strings FormData delivers; the result is the       *)
(* errors array and isValid.                                               *)
(***************************************************************************)
\* new Date() at evaluation time, as a day ordinal like ParseDate's
Today == ParseDate(<<"2","0","2","4","-","0","6","-","1","5">>)
\* new Date('2000-01-01')
MinDate == ParseDate(<<"2","0","0","0","-","0","1","-","0","1">>)

Errs(cond, msg) == IF cond THEN <<msg>> ELSE <<>>

\* the hire date rules had they not tested for a date in the future
HireDateErrorsNoFuture(hd) ==
    IF hd = <<>> THEN <<"Please enter hire date">>
    ELSE Errs(Lt(ParseDate(hd), MinDate), "Hire date seems too old (before 2000)")

HireDateErrors(hd) ==
    IF hd = <<>> THEN <<"Please enter hire date">>
    ELSE Errs(Gt(ParseDate(hd), Today), "Hire date cannot be in the future")
         \o Errs(Lt(ParseDate(hd), MinDate), "Hire date seems too old (before 2000)")

\* validateStudent's rules had the GPA rule allowed up to 5.0
StudentErrorsGpaUpToFive(data) ==
    Errs(data.name = <<>> \/ Len(Trim(data.name)) < 3,
         "Name must be at least 3 characters long")
    \o Errs(data.email = <<>> \/ ~EmailRegexTest(data.email),
            "Please enter a valid email address")
    \o Errs(data.phone = <<>> \/ Len(Trim(data.phone)) < 10,
            "Please enter a valid phone number")
    \o Errs(LET gpa == ParseFloat(data.gpa)
            IN gpa = NaN \/ Lt(gpa, Num(0)) \/ Gt(gpa, Num(500)),
            "GPA must be between 0.0 and 4.0")
    \o Errs(data.department = <<>> \/ Trim(data.department) = <<>>,
            "Please select a department")
    \o Errs(data.enrollmentDate = <<>>, "Please enter enrollment date")

StudentErrors(data) ==
    Errs(data.name = <<>> \/ Len(Trim(data.name)) < 3,
         "Name must be at least 3 characters long")
    \o Errs(data.email = <<>> \/ ~EmailRegexTest(data.email),
            "Please enter a valid email address")
    \o Errs(data.phone = <<>> \/ Len(Trim(data.phone)) < 10,
            "Please enter a valid phone number")
    \o Errs(LET gpa == ParseFloat(data.gpa)
            IN gpa = NaN \/ Lt(gpa, Num(0)) \/ Gt(gpa, Num(400)),
            "GPA must be between 0.0 and 4.0")
    \o Errs(data.department = <<>> \/ Trim(data.department) = <<>>,
            "Please select a department")
    \o Errs(data.enrollmentDate = <<>>, "Please enter enrollment date")

CourseErrors(data) ==
    Errs(data.code = <<>> \/ ~CodeRegexTest(ToUpperCase(data.code)),
         "Course code must be in format: CS101, ENG201, BUS301, etc.")
    \o Errs(data.name = <<>> \/ Len(Trim(data.name)) < 5,
            "Course name must be at least 5 characters long")
    \o Errs(LET credits == ParseInt(data.credits)
            IN credits = NaN \/ Lt(credits, Num(1)) \/ Gt(credits, Num(6)),
            "Credit hours must be between 1 and 6")
    \o Errs(data.department = <<>> \/ Trim(data.department) = <<>>,
            "Please select a department")
    \o Errs(data.instructor = <<>> \/ Len(Trim(data.instructor)) < 3,
            "Instructor name must be at least 3 characters long")

\* validateInstructor's rules had the name needed three characters only
InstructorErrorsNameOfThree(data) ==
    Errs(data.name = <<>> \/ Len(Trim(data.name)) < 3,
         "Name must be at least 5 characters long (include title: Dr., Prof., etc.)")
    \o Errs(data.email = <<>> \/ ~EmailRegexTest(data.email),
            "Please enter a valid email address")
    \o Errs(data.phone = <<>> \/ Len(Trim(data.phone)) < 10,
            "Please enter a valid phone number")
    \o Errs(data.department = <<>> \/ Trim(data.department) = <<>>,
            "Please select a department")
    \o Errs(data.specialization = <<>> \/ Len(Trim(data.specialization)) < 3,
            "Specialization must be at least 3 characters long")
    \o HireDateErrors(data.hireDate)

InstructorErrors(data) ==
    Errs(data.name = <<>> \/ Len(Trim(data.name)) < 5,
         "Name must be at least 5 characters long (include title: Dr., Prof., etc.)")
    \o Errs(data.email = <<>> \/ ~EmailRegexTest(data.email),
            "Please enter a valid email address")
    \o Errs(data.phone = <<>> \/ Len(Trim(data.phone)) < 10,
            "Please enter a valid phone number")
    \o Errs(data.department = <<>> \/ Trim(data.department) = <<>>,
            "Please select a department")
    \o Errs(data.specialization = <<>> \/ Len(Trim(data.specialization)) < 3,
            "Specialization must be at least 3 characters long")
    \o HireDateErrors(data.hireDate)

\* validateEmployee's rules had the position not been tested
EmployeeErrorsAnyPosition(data) ==
    Errs(data.name = <<>> \/ Len(Trim(data.name)) < 3,
         "Name must be at least 3 characters long")
    \o Errs(data.email = <<>> \/ ~EmailRegexTest(data.email),
            "Please enter a valid email address")
    \o Errs(data.phone = <<>> \/ Len(Trim(data.phone)) < 10,
            "Please enter a valid phone number")
    \o Errs(data.department = <<>> \/ Trim(data.department) = <<>>,
            "Please select a department")
    \o HireDateErrors(data.hireDate)

EmployeeErrors(data) ==
    Errs(data.name = <<>> \/ Len(Trim(data.name)) < 3,
         "Name must be at least 3 characters long")
    \o Errs(data.email = <<>> \/ ~EmailRegexTest(data.email),
            "Please enter a valid email address")
    \o Errs(data.phone = <<>> \/ Len(Trim(data.phone)) < 10,
            "Please enter a valid phone number")
    \o Errs(data.position = <<>> \/ Trim(data.position) = <<>>,
            "Please select a position")
    \o Errs(data.department = <<>> \/ Trim(data.department) = <<>>,
            "Please select a department")
    \o HireDateErrors(data.hireDate)

\* a validator had it returned at the first violation
validateStudentFirstOnly(data) ==
    LET e == StudentErrors(data)
    IN [isValid |-> Len(e) = 0, errors |-> IF e = <<>> THEN e ELSE <<e[1]>>]

validateStudent(data) ==
    LET e == StudentErrors(data) IN [isValid |-> Len(e) = 0, errors |-> e]
validateCourse(data) ==
    LET e == CourseErrors(data) IN [isValid |-> Len(e) = 0, errors |-> e]
validateInstructor(data) ==
    LET e == InstructorErrors(data) IN [isValid |-> Len(e) = 0, errors |-> e]
validateEmployee(data) ==
    LET e == EmployeeErrors(data) IN [isValid |-> Len(e) = 0, errors |-> e]

(***************************************************************************)
(* The record kinds, the forms a user may submit and the REST collection.  *)
(***************************************************************************)
Kinds == {"Student", "Course", "Instructor", "Employee"}

\* the field values a user may have typed when the form is submitted:
\* for every kind two records that pass validation and one that does not
StudentForms ==
    LET base == [name |-> <<"A","n","n"," ","L","e","e">>, email |-> <<"a","@","b",".","e","d","u">>, phone |-> <<"1","2","3","4","5","6","7","8","9","0">>,
                 department |-> <<"B","u","s","i","n","e","s","s">>, gpa |-> <<"3",".","7">>,
                 enrollmentDate |-> <<"2","0","2","3","-","0","1","-","0","1">>]
    IN <<base,
         [base EXCEPT !.name = <<"B","o","b"," ","R","a","y">>, !.gpa = <<"2",".","2","5">>],
         [base EXCEPT !.gpa = <<"4",".","5">>]>>

CourseForms ==
    LET base == [code |-> <<"c","s","1","0","1">>, name |-> <<"I","n","t","r","o"," ","t","o"," ","S","y","s","t","e","m","s">>, credits |-> <<"3">>,
                 department |-> <<"E","n","g","i","n","e","e","r","i","n","g">>, instructor |-> <<"D","r","."," ","L","e","e">>]
    IN <<base,
         [base EXCEPT !.code = <<"M","A","T","H","2","0","1">>, !.name = <<"A","l","g","e","b","r","a">>, !.instructor = <<"D","r","."," ","R","a","y">>],
         [base EXCEPT !.code = <<"c","1">>]>>

InstructorForms ==
    LET base == [name |-> <<"D","r","."," ","L","e","e">>, email |-> <<"l","e","e","@","u","n","i",".","e","d","u">>, phone |-> <<"1","2","3","4","5","6","7","8","9","0">>,
                 department |-> <<"B","u","s","i","n","e","s","s">>, specialization |-> <<"S","y","s","t","e","m","s">>,
                 hireDate |-> <<"2","0","1","5","-","0","9","-","0","1">>]
    IN <<base,
         [base EXCEPT !.name = <<"D","r","."," ","R","a","y">>, !.email = <<"r","a","y","@","u","n","i",".","e","d","u">>],
         [base EXCEPT !.hireDate = <<"2","9","9","9","-","0","1","-","0","1">>]>>

EmployeeForms ==
    LET base == [name |-> <<"S","a","m"," ","L","e","e">>, email |-> <<"s","a","m","@","u","n","i",".","e","d","u">>, phone |-> <<"1","2","3","4","5","6","7","8","9","0">>,
                 position |-> <<"A","c","a","d","e","m","i","c"," ","A","d","v","i","s","o","r">>, department |-> <<"A","d","m","i","s","s","i","o","n","s">>,
                 hireDate |-> <<"2","0","1","0","-","0","3","-","0","1">>]
    IN <<base,
         [base EXCEPT !.name = <<"K","i","m"," ","R","a","y">>, !.email = <<"k","i","m","@","u","n","i",".","e","d","u">>],
         [base EXCEPT !.hireDate = <<"1","9","9","9","-","1","2","-","3","1">>]>>

FormsOf(k) ==
    CASE k = "Student" -> StudentForms
      [] k = "Course" -> CourseForms
      [] k = "Instructor" -> InstructorForms
      [] k = "Employee" -> EmployeeForms

\* the form as renderForm() leaves it when called without a record
BlankForm(k) == [f \in DOMAIN FormsOf(k)[1] |-> <<>>]

\* this.validateX(data) of the kind's saveRecord
Validate(k, data) ==
    CASE k = "Student" -> validateStudent(data)
      [] k = "Course" -> validateCourse(data)
      [] k = "Instructor" -> validateInstructor(data)
      [] k = "Employee" -> validateEmployee(data)

\* the conversions had saveRecord left the course code as typed
ConvertDataKeepingCase(k, data) ==
    [f \in DOMAIN data |->
        IF k = "Student" /\ f = "gpa" THEN ParseFloat(data.gpa)
        ELSE IF k = "Course" /\ f = "credits" THEN ParseInt(data.credits)
        ELSE data[f]]

\* the conversions saveRecord applies to the validated data before the write
ConvertData(k, data) ==
    [f \in DOMAIN data |->
        IF k = "Student" /\ f = "gpa" THEN ParseFloat(data.gpa)
        ELSE IF k = "Course" /\ f = "code" THEN ToUpperCase(data.code)
        ELSE IF k = "Course" /\ f = "credits" THEN ParseInt(data.credits)
        ELSE data[f]]

\* a decimal number as JavaScript prints it
RECURSIVE NatToString(_)
NatToString(n) ==
    IF n < 10 THEN <<Digits[n + 1]>>
    ELSE NatToString(n \div 10) \o <<Digits[(n % 10) + 1]>>
IntToString(n) == IF n < 0 THEN <<"-">> \o NatToString(0 - n) ELSE NatToString(n)
\* a number held in hundredths, printed without trailing zeros
HundredthsToString(h) ==
    LET a == IF h < 0 THEN 0 - h ELSE h
        frac == a % 100
        sign == IF h < 0 THEN <<"-">> ELSE <<>>
    IN sign \o NatToString(a \div 100)
       \o (IF frac = 0 THEN <<>>
           ELSE IF frac % 10 = 0 THEN <<".", Digits[(frac \div 10) + 1]>>
           ELSE <<".", Digits[(frac \div 10) + 1], Digits[(frac % 10) + 1]>>)

(***************************************************************************)
(* Every record the view ever holds or writes is the converted data of a   *)
(* submitted form.  The state keeps a record as its id and the number v of *)
(* that form in FormsOf(kind); Body gives the record's fields.             *)
(***************************************************************************)
FormNumbers(k) == 1..Len(FormsOf(k))
Body(k, v) == ConvertData(k, FormsOf(k)[v])
\* the number under which the state keeps the fields body
BodyNumber(k, body) == CHOOSE v \in FormNumbers(k) : Body(k, v) = body

\* null where a record is expected: no record has the id 0
NoRecord == [id |-> 0, v |-> 0]

\* renderForm(data): every field shows data[field.name] || ''
RenderForm(k, rec) ==
    IF rec = NoRecord THEN BlankForm(k)
    ELSE LET b == Body(k, rec.v)
         IN [f \in DOMAIN BlankForm(k) |->
               IF k = "Student" /\ f = "gpa"
               THEN (IF b.gpa = NaN \/ b.gpa = Num(0) THEN <<>>
                     ELSE HundredthsToString(b.gpa[1]))
               ELSE IF k = "Course" /\ f = "credits"
               THEN (IF b.credits = NaN \/ b.credits = Num(0) THEN <<>>
                     ELSE IntToString(b.credits[1]))
               ELSE b[f]]

Ids == 1..MaxId

\* the ids of the collection d (id -> number of the stored record, 0: none)
Stored(d) == {i \in Ids : d[i] # 0}

(***************************************************************************)
(* The REST resource (json-server): one collection, queried with           *)
(* _page/_limit, q, _sort/_order and code=...; ids are assigned on POST.    *)
(***************************************************************************)
Ascii == <<" ", "-", ".", "0","1","2","3","4","5","6","7","8","9", "@",
           "A","B","C","D","E","F","G","H","I","J","K","L","M",
           "N","O","P","Q","R","S","T","U","V","W","X","Y","Z",
           "a","b","c","d","e","f","g","h","i","j","k","l","m",
           "n","o","p","q","r","s","t","u","v","w","x","y","z">>
CharCode(c) == CHOOSE i \in 1..Len(Ascii) : Ascii[i] = c

RECURSIVE StrLess(_, _)
StrLess(a, b) ==
    IF b = <<>> THEN FALSE
    ELSE IF a = <<>> THEN TRUE
    ELSE IF Head(a) = Head(b) THEN StrLess(Tail(a), Tail(b))
    ELSE CharCode(Head(a)) < CharCode(Head(b))

Contains(s, q) ==
    \E i \in 0..(Len(s) - Len(q)) : SubSeq(s, i + 1, i + Len(q)) = q

\* encodeURIComponent: a space and "@" are escaped, letters, digits, "-"
\* and "." are kept
RECURSIVE EncodeURIComponent(_)
EncodeURIComponent(s) ==
    IF s = <<>> THEN <<>>
    ELSE (CASE Head(s) = " " -> <<"%", "2", "0">>
            [] Head(s) = "@" -> <<"%", "4", "0">>
            [] OTHER -> <<Head(s)>>)
         \o EncodeURIComponent(Tail(s))

\* the server's decoding of a query value
RECURSIVE DecodeURIComponent(_)
DecodeURIComponent(s) ==
    IF s = <<>> THEN <<>>
    ELSE IF Head(s) = "%" /\ Len(s) >= 3
    THEN (IF SubSeq(s, 2, 3) = <<"2", "0">> THEN <<" ">> ELSE <<"@">>)
         \o DecodeURIComponent(SubSeq(s, 4, Len(s)))
    ELSE <<Head(s)>> \o DecodeURIComponent(Tail(s))

\* the fields of a stored record that hold text
TextFields(k) ==
    (DOMAIN BlankForm(k)) \ (CASE k = "Student" -> {"gpa"}
                               [] k = "Course" -> {"credits"}
                               [] OTHER -> {})

\* ?q=TEXT: full-text search, some text field of record number v holds TEXT
ServerMatches(k, v, q) ==
    \E f \in TextFields(k) : Contains(Body(k, v)[f], q)

\* _sort=COL&_order=ORD over the columns "id" and "name"; ties keep id order
ServerBefore(k, d, i, j, sort, order) ==
    IF sort \in {"", "id"}
    THEN (IF order = "desc" /\ sort = "id" THEN j < i ELSE i < j)
    ELSE LET a == Body(k, d[i])[sort]
             b == Body(k, d[j])[sort]
         IN IF a = b THEN i < j
            ELSE IF order = "desc" THEN StrLess(b, a) ELSE StrLess(a, b)

RECURSIVE ServerSort(_, _, _, _, _)
ServerSort(k, d, ids, sort, order) ==
    IF ids = {} THEN <<>>
    ELSE LET first == CHOOSE i \in ids :
                          \A j \in ids \ {i} : ServerBefore(k, d, i, j, sort, order)
         IN <<first>> \o ServerSort(k, d, ids \ {first}, sort, order)

\* the ids a list request selects, before pagination
ServerSelect(k, d, req) ==
    {i \in Stored(d) :
        ~req.hasQ \/ ServerMatches(k, d[i], DecodeURIComponent(req.q))}

\* the response to GET {resource}?_page=P&_limit=L...: the page's records
ServerPage(k, d, req) ==
    LET all == ServerSort(k, d, ServerSelect(k, d, req), req.sort, req.order)
        from == (req.page - 1) * req.limit + 1
        to == IF req.page * req.limit < Len(all) THEN req.page * req.limit ELSE Len(all)
    IN [n \in 1..(IF to >= from THEN to - from + 1 ELSE 0) |->
            [id |-> all[from + n - 1], v |-> d[all[from + n - 1]]]]

\* the X-Total-Count header json-server sends with a paginated response
ServerTotalCount(k, d, req) == IntToString(Cardinality(ServerSelect(k, d, req)))

\* GET {resource}?code=CODE
ServerByCode(k, d, code) ==
    LET hit == {i \in Stored(d) : Body(k, d[i]).code = DecodeURIComponent(code)}
    IN ServerSort(k, d, hit, "", "")

\* the id json-server gives to a created record
NextId(d) == CHOOSE i \in Ids \ Stored(d) : \A j \in Ids \ Stored(d) : i <= j

(***************************************************************************)
(* State of one table view and of its page.                                *)
(***************************************************************************)
VARIABLES
    kind,              \* the entity class of the view
    db,                \* the REST collection: id -> number of the record, 0: none
    inflight,          \* fetches awaiting their response, in issue order
    currentPage, itemsPerPage, totalItems, totalPages,
    sortColumn, sortOrder, searchQuery,
    data, currentRecord, recordToDelete,
    formModalActive,   \* formModal.classList contains 'active'
    deleteModalActive, \* deleteModal.classList contains 'active'
    loadingDisplay,    \* loadingSpinner.style.display
    tableDisplay,      \* tableElement.style.display
    errorDisplay,      \* errorMessage.style.display
    prevDisabled, nextDisabled,
    form,              \* recordForm's fields: 0 as renderForm() wrote them,
                       \* v > 0 filled in with FormsOf(kind)[v]
    alertText,         \* the lines of the alert() the last step raised, if any
    earlier,           \* the views loaded before this one, which still listen
    candidate,         \* the data handed to a validator, with its entity class
    result             \* what the validator returned and what the save writes

query == <<currentPage, itemsPerPage, sortColumn, sortOrder, searchQuery>>
loaded == <<data, totalItems, totalPages, prevDisabled, nextDisabled>>
panels == <<loadingDisplay, tableDisplay, errorDisplay>>
formModal == <<formModalActive, currentRecord, form>>
delModal == <<deleteModalActive, recordToDelete>>
validator == <<candidate, result>>
vars == <<kind, db, inflight, query, loaded, panels, formModal, delModal, alertText,
          earlier, validator>>

\* no record has been handed to a validator
NoCandidate == [kind |-> "", data |-> [name |-> <<>>]]
NoResult == [stage |-> "none", isValid |-> FALSE, errors |-> <<>>, body |-> [name |-> <<>>]]

\* the select's values for "items per page" and what a user may type to search
PageSizeOptions == {<<"1">>, <<"1","0">>}
SearchInputs == {<<>>, <<"L","e","e">>}
\* the data-column of the headers a user clicks
SortableColumns == {"id", "name"}

\* a fetch: its method and the parts of its URL and of its body that vary
\* (body: the number of the record sent, bodyId: the id the body carries)
NoRequest == [type |-> "", page |-> 0, limit |-> 0, hasQ |-> FALSE, q |-> <<>>,
              hasSort |-> FALSE, sort |-> "", order |-> "", id |-> 0,
              body |-> 0, bodyId |-> 0]

\* loadData() had it appended _order whether a column is selected or not
ListUrlAlwaysOrder(page, limit, q, col, ord) ==
    [NoRequest EXCEPT !.type = "list", !.page = page, !.limit = limit,
                      !.hasQ = (q # <<>>),
                      !.q = IF q # <<>> THEN EncodeURIComponent(q) ELSE <<>>,
                      !.hasSort = (col # Null),
                      !.sort = IF col # Null THEN col ELSE "",
                      !.order = ord]

\* loadData(), lines 111-120: the URL of the list request
ListUrl(page, limit, q, col, ord) ==
    [NoRequest EXCEPT !.type = "list", !.page = page, !.limit = limit,
                      !.hasQ = (q # <<>>),
                      !.q = IF q # <<>> THEN EncodeURIComponent(q) ELSE <<>>,
                      !.hasSort = (col # Null),
                      !.sort = IF col # Null THEN col ELSE "",
                      !.order = IF col # Null THEN ord ELSE ""]

\* loadData() up to its await: showLoading, hideError, fetch(url); pending
\* are the fetches already awaiting a response
LoadData(pending) ==
    /\ loadingDisplay' = "flex"
    /\ tableDisplay' = "none"
    /\ errorDisplay' = "none"
    /\ inflight' = Append(pending, ListUrl(currentPage', itemsPerPage', searchQuery',
                                            sortColumn', sortOrder'))

\* no view was loaded before this one; table names the view whose
\* renderTable() wrote the rows shown (0: the current view)
NoEarlier == [views |-> <<>>, requests |-> <<>>, table |-> 0]

\* new Student() ... init() for the entity class k, the collection being d:
\* the constructor's fields, then loadData().  The disabled attributes of
\* the two page buttons are the document's.
InitView(k, d) ==
    /\ kind = k
    /\ db = d
    /\ currentPage = 1
    /\ itemsPerPage = 10
    /\ totalItems = 0
    /\ totalPages = 0
    /\ sortColumn = Null
    /\ sortOrder = "asc"
    /\ searchQuery = <<>>
    /\ data = <<>>
    /\ currentRecord = NoRecord
    /\ recordToDelete = 0
    /\ formModalActive = FALSE
    /\ deleteModalActive = FALSE
    /\ prevDisabled \in BOOLEAN
    /\ nextDisabled \in BOOLEAN
    /\ form = 0
    /\ alertText = <<>>
    /\ loadingDisplay = "flex"
    /\ tableDisplay = "none"
    /\ errorDisplay = "none"
    /\ inflight = <<ListUrl(1, 10, <<>>, Null, "asc")>>
    /\ earlier = NoEarlier
    /\ candidate = NoCandidate
    /\ result = NoResult

(***************************************************************************)
(* What the page lets a user reach.  Both dialogs are shown over an        *)
(* overlay whose click handler closes them (modalOverlay,                  *)
(* deleteModalOverlay): while a dialog is active the controls of the page  *)
(* behind it are not clickable.  The rows and headers of the table exist   *)
(* as renderTable() wrote them and are clickable while the table is shown. *)
(***************************************************************************)
PageClickable == ~formModalActive /\ ~deleteModalActive
TableClickable == PageClickable /\ tableDisplay = "table" /\ earlier.table = 0
RowIds == {data[n].id : n \in 1..Len(data)}
CanFetch == Len(inflight) < MaxInflight

Without(seq, n) == SubSeq(seq, 1, n - 1) \o SubSeq(seq, n + 1, Len(seq))

(***************************************************************************)
(* The views loaded before the current one.  loadPage() drops its          *)
(* reference to the previous module, but the listeners that module's       *)
(* constructor registered stay on the controls of the page, which every    *)
(* view looks up by the same ids: an event of such a control runs the      *)
(* handler of every view loaded so far, the earliest first.  An earlier    *)
(* view w keeps its class, its collection and its query fields; it holds   *)
(* no record, since a page is left with both dialogs closed.               *)
(***************************************************************************)
\* loadData() of an earlier view w: the URL of its list request
EarlierUrl(w) ==
    ListUrl(w.currentPage, w.itemsPerPage, w.searchQuery, w.sortColumn, w.sortOrder)

\* a control's event reaches the earlier views: every one the handler
\* runs in takes the fields `to' gives it and calls loadData()
EarlierDispatch(runs, to) ==
    LET views == earlier.views
        new == [i \in DOMAIN views |-> IF runs[i] THEN to[i] ELSE views[i]]
        urls == [i \in DOMAIN views |-> [view |-> i, url |-> EarlierUrl(new[i])]]
    IN [earlier EXCEPT !.views = new,
                       !.requests = @ \o SelectSeq(urls, LAMBDA r : runs[r.view])]

\* the 'input' listeners of the earlier views
EarlierSearchInput(q) ==
    EarlierDispatch([i \in DOMAIN earlier.views |-> TRUE],
                    [i \in DOMAIN earlier.views |->
                       [earlier.views[i] EXCEPT !.searchQuery = q, !.currentPage = 1]])

\* the 'change' listeners of the earlier views
EarlierItemsPerPageChange(v) ==
    EarlierDispatch([i \in DOMAIN earlier.views |-> TRUE],
                    [i \in DOMAIN earlier.views |->
                       [earlier.views[i] EXCEPT !.itemsPerPage = ParseInt(v)[1],
                                                !.currentPage = 1]])

\* previousPage() of the earlier views
EarlierPreviousPage ==
    EarlierDispatch([i \in DOMAIN earlier.views |-> earlier.views[i].currentPage > 1],
                    [i \in DOMAIN earlier.views |->
                       [earlier.views[i] EXCEPT !.currentPage = @ - 1]])

\* nextPage() of the earlier views
EarlierNextPage ==
    EarlierDispatch([i \in DOMAIN earlier.views |->
                       earlier.views[i].currentPage < earlier.views[i].totalPages],
                    [i \in DOMAIN earlier.views |->
                       [earlier.views[i] EXCEPT !.currentPage = @ + 1]])

\* the fetches of the earlier views that may be pending at the same time
EarlierCanFetch == Len(earlier.requests) + Len(earlier.views) <= MaxInflight

(***************************************************************************)
(* Search, page size, sort and pagination.                                 *)
(***************************************************************************)
\* the 'input' listener had it shown the rows it holds when the search text
\* is cleared, without a request
SearchInputCached(q) ==
    /\ EarlierCanFetch
    /\ PageClickable /\ CanFetch
    /\ q # searchQuery
    /\ searchQuery' = q
    /\ currentPage' = 1
    /\ UNCHANGED <<itemsPerPage, sortColumn, sortOrder>>
    /\ IF q = <<>> THEN UNCHANGED <<panels, inflight>> ELSE LoadData(inflight)
    /\ alertText' = <<>>
    /\ UNCHANGED <<kind, db, loaded, formModal, delModal>>
    /\ earlier' = EarlierSearchInput(q)
    /\ UNCHANGED validator

\* searchInput 'input' listener
SearchInput(q) ==
    /\ EarlierCanFetch
    /\ PageClickable /\ CanFetch
    /\ q # searchQuery
    /\ searchQuery' = q
    /\ currentPage' = 1
    /\ UNCHANGED <<itemsPerPage, sortColumn, sortOrder>>
    /\ LoadData(inflight)
    /\ alertText' = <<>>
    /\ UNCHANGED <<kind, db, loaded, formModal, delModal>>
    /\ earlier' = EarlierSearchInput(q)
    /\ UNCHANGED validator

\* itemsPerPageSelect 'change' listener
ItemsPerPageChange(v) ==
    /\ EarlierCanFetch
    /\ PageClickable /\ CanFetch
    /\ ParseInt(v) # Num(itemsPerPage)
    /\ itemsPerPage' = ParseInt(v)[1]
    /\ currentPage' = 1
    /\ UNCHANGED <<searchQuery, sortColumn, sortOrder>>
    /\ LoadData(inflight)
    /\ alertText' = <<>>
    /\ UNCHANGED <<kind, db, loaded, formModal, delModal>>
    /\ earlier' = EarlierItemsPerPageChange(v)
    /\ UNCHANGED validator

\* sortBy(column) had it kept the order when the column changes
sortByKeepingOrder(column) ==
    /\ TableClickable /\ CanFetch
    /\ data # <<>>
    /\ IF sortColumn = column
       THEN /\ sortOrder' = (IF sortOrder = "asc" THEN "desc" ELSE "asc")
            /\ UNCHANGED sortColumn
       ELSE /\ sortColumn' = column
            /\ UNCHANGED sortOrder
    /\ UNCHANGED <<currentPage, itemsPerPage, searchQuery>>
    /\ LoadData(inflight)
    /\ alertText' = <<>>
    /\ UNCHANGED <<kind, db, loaded, formModal, delModal>>
    /\ UNCHANGED <<earlier, validator>>

\* sortBy(column), from the click listener of a rendered header
sortBy(column) ==
    /\ TableClickable /\ CanFetch
    /\ data # <<>>
    /\ IF sortColumn = column
       THEN /\ sortOrder' = (IF sortOrder = "asc" THEN "desc" ELSE "asc")
            /\ UNCHANGED sortColumn
       ELSE /\ sortColumn' = column
            /\ sortOrder' = "asc"
    /\ UNCHANGED <<currentPage, itemsPerPage, searchQuery>>
    /\ LoadData(inflight)
    /\ alertText' = <<>>
    /\ UNCHANGED <<kind, db, loaded, formModal, delModal>>
    /\ UNCHANGED <<earlier, validator>>

\* previousPage(), from prevBtn's click listener
previousPage ==
    /\ EarlierCanFetch
    /\ PageClickable /\ ~prevDisabled
    /\ alertText' = <<>>
    /\ IF currentPage > 1
       THEN /\ CanFetch
            /\ currentPage' = currentPage - 1
            /\ UNCHANGED <<itemsPerPage, sortColumn, sortOrder, searchQuery>>
            /\ LoadData(inflight)
       ELSE UNCHANGED <<query, panels, inflight>>
    /\ UNCHANGED <<kind, db, loaded, formModal, delModal>>
    /\ earlier' = EarlierPreviousPage
    /\ UNCHANGED validator

\* nextPage() had it not compared currentPage with totalPages
nextPageUnguarded ==
    /\ EarlierCanFetch
    /\ PageClickable /\ ~nextDisabled
    /\ alertText' = <<>>
    /\ CanFetch
    /\ currentPage' = currentPage + 1
    /\ UNCHANGED <<itemsPerPage, sortColumn, sortOrder, searchQuery>>
    /\ LoadData(inflight)
    /\ UNCHANGED <<kind, db, loaded, formModal, delModal>>
    /\ earlier' = EarlierNextPage
    /\ UNCHANGED validator

\* nextPage(), from nextBtn's click listener
nextPage ==
    /\ EarlierCanFetch
    /\ PageClickable /\ ~nextDisabled
    /\ alertText' = <<>>
    /\ IF currentPage < totalPages
       THEN /\ CanFetch
            /\ currentPage' = currentPage + 1
            /\ UNCHANGED <<itemsPerPage, sortColumn, sortOrder, searchQuery>>
            /\ LoadData(inflight)
       ELSE UNCHANGED <<query, panels, inflight>>
    /\ UNCHANGED <<kind, db, loaded, formModal, delModal>>
    /\ earlier' = EarlierNextPage
    /\ UNCHANGED validator

\* Math.floor(a / b) for a >= 0, b >= 1
Floor(a, b) == a \div b

\* Math.ceil(a / b) for a >= 0, b >= 1
Ceil(a, b) == (a + b - 1) \div b

\* updatePagination(), lines 242-243
PrevBtnDisabled(page) == page = 1
NextBtnDisabled(page, pages) == page = pages \/ pages = 0

\* loadData() had it always counted the rows of the response
LoadDataOkCountingRows(n, rows, count) ==
    /\ data' = rows
    /\ totalItems' = Len(rows)
    /\ totalPages' = Ceil(totalItems', itemsPerPage)
    /\ prevDisabled' = PrevBtnDisabled(currentPage)
    /\ nextDisabled' = NextBtnDisabled(currentPage, totalPages')
    /\ loadingDisplay' = "none"
    /\ tableDisplay' = "table"
    /\ UNCHANGED errorDisplay
    /\ alertText' = <<>>

\* loadData() after its await, the response being ok: lines 124-137.
\* count is the X-Total-Count header, the empty string when the response
\* has none (headers.get gives null, which is as falsy).
LoadDataOk(n, rows, count) ==
    /\ data' = rows
    /\ totalItems' = (IF count # <<>> THEN ParseInt(count)[1] ELSE Len(rows))
    /\ totalPages' = Ceil(totalItems', itemsPerPage)
    /\ prevDisabled' = PrevBtnDisabled(currentPage)
    /\ nextDisabled' = NextBtnDisabled(currentPage, totalPages')
    /\ loadingDisplay' = "none"
    /\ tableDisplay' = "table"
    /\ UNCHANGED errorDisplay
    /\ alertText' = <<>>

\* loadData()'s catch, lines 139-143: showError, then hideLoading
LoadDataFailed(n) ==
    /\ errorDisplay' = "flex"
    /\ loadingDisplay' = "none"
    /\ tableDisplay' = "table"
    /\ alertText' = <<>>
    /\ UNCHANGED loaded

\* the list responses had loadData() dropped every response to a request
\* that another request has followed
ListResponseSequenced(n, ok, hasCount) ==
    /\ n \in 1..Len(inflight)
    /\ inflight[n].type = "list"
    /\ inflight' = Without(inflight, n)
    /\ IF \E m \in (n + 1)..Len(inflight) : inflight[m].type = "list"
       THEN alertText' = <<>> /\ UNCHANGED <<loaded, panels>>
       ELSE IF ok
            THEN LoadDataOk(n, ServerPage(kind, db, inflight[n]),
                            IF hasCount THEN ServerTotalCount(kind, db, inflight[n]) ELSE <<>>)
            ELSE ~hasCount /\ LoadDataFailed(n)
    /\ UNCHANGED <<kind, db, query, formModal, delModal>>
    /\ earlier' = IF ok THEN [earlier EXCEPT !.table = 0] ELSE earlier
    /\ UNCHANGED validator

\* the response to the n-th pending fetch arrives and it is a list request
ListResponse(n, ok, hasCount) ==
    /\ n \in 1..Len(inflight)
    /\ inflight[n].type = "list"
    /\ inflight' = Without(inflight, n)
    /\ IF ok
       THEN LoadDataOk(n, ServerPage(kind, db, inflight[n]),
                       IF hasCount THEN ServerTotalCount(kind, db, inflight[n]) ELSE <<>>)
       ELSE ~hasCount /\ LoadDataFailed(n)
    /\ UNCHANGED <<kind, db, query, formModal, delModal>>
    /\ earlier' = IF ok THEN [earlier EXCEPT !.table = 0] ELSE earlier
    /\ UNCHANGED validator

(***************************************************************************)
(* The modal workflow: add, edit, save, delete.                            *)
(***************************************************************************)
\* closeModal(): the dialog is hidden, recordForm.reset() restores the
\* values renderForm() wrote (it is always called with currentRecord), and
\* currentRecord is cleared
CloseModalEffect ==
    /\ formModalActive' = FALSE
    /\ form' = 0
    /\ currentRecord' = NoRecord

\* closeDeleteModal() had it kept recordToDelete
CloseDeleteModalKeepingId ==
    /\ deleteModalActive' = FALSE
    /\ recordToDelete' = recordToDelete

\* closeDeleteModal()
CloseDeleteModalEffect ==
    /\ deleteModalActive' = FALSE
    /\ recordToDelete' = 0

\* openAddModal(), from addNewBtn's click listener
openAddModal ==
    /\ PageClickable
    /\ currentRecord' = NoRecord
    /\ form' = 0
    /\ formModalActive' = TRUE
    /\ alertText' = <<>>
    /\ UNCHANGED <<kind, db, inflight, query, loaded, panels, delModal>>
    /\ UNCHANGED <<earlier, validator>>

\* openEditModal(id) up to its await, from a row's Edit button
openEditModal(id) ==
    /\ TableClickable /\ CanFetch
    /\ id \in RowIds
    /\ inflight' = Append(inflight, [NoRequest EXCEPT !.type = "get", !.id = id])
    /\ alertText' = <<>>
    /\ UNCHANGED <<kind, db, query, loaded, panels, formModal, delModal>>
    /\ UNCHANGED <<earlier, validator>>

\* openEditModal(id) whose catch opened the form as well
GetResponseOpeningOnFailure(n, ok) ==
    /\ n \in 1..Len(inflight)
    /\ inflight[n].type = "get"
    /\ ok => db[inflight[n].id] # 0
    /\ inflight' = Without(inflight, n)
    /\ IF ok
       THEN /\ currentRecord' = [id |-> inflight[n].id, v |-> db[inflight[n].id]]
            /\ form' = 0
            /\ formModalActive' = TRUE
            /\ alertText' = <<>>
       ELSE /\ alertText' = <<"Failed to load record for editing">>
            /\ formModalActive' = TRUE
            /\ UNCHANGED <<currentRecord, form>>
    /\ UNCHANGED <<kind, db, query, loaded, panels, delModal>>
    /\ UNCHANGED <<earlier, validator>>

\* openEditModal(id) after its await: lines 282-287, or the catch
GetResponse(n, ok) ==
    /\ n \in 1..Len(inflight)
    /\ inflight[n].type = "get"
    /\ ok => db[inflight[n].id] # 0
    /\ inflight' = Without(inflight, n)
    /\ IF ok
       THEN /\ currentRecord' = [id |-> inflight[n].id, v |-> db[inflight[n].id]]
            /\ form' = 0
            /\ formModalActive' = TRUE
            /\ alertText' = <<>>
       ELSE /\ alertText' = <<"Failed to load record for editing">>
            /\ UNCHANGED formModal
    /\ UNCHANGED <<kind, db, query, loaded, panels, delModal>>
    /\ UNCHANGED <<earlier, validator>>

\* the user fills in the fields of the open form
TypeForm(f) ==
    /\ formModalActive
    /\ f # form
    /\ form' = f
    /\ alertText' = <<>>
    /\ UNCHANGED <<kind, db, inflight, query, loaded, panels, formModalActive,
                   currentRecord, delModal>>
    /\ UNCHANGED <<earlier, validator>>

\* closeModal() had it left currentRecord as it was
closeModalKeepingRecord ==
    /\ formModalActive
    /\ formModalActive' = FALSE
    /\ form' = 0
    /\ UNCHANGED currentRecord
    /\ alertText' = <<>>
    /\ UNCHANGED <<kind, db, inflight, query, loaded, panels, delModal>>
    /\ UNCHANGED <<earlier, validator>>

\* closeModal(), from modalClose, modalOverlay or cancelBtn
closeModal ==
    /\ formModalActive
    /\ CloseModalEffect
    /\ alertText' = <<>>
    /\ UNCHANGED <<kind, db, inflight, query, loaded, panels, delModal>>
    /\ UNCHANGED <<earlier, validator>>

\* openDeleteModal(id), from a row's Delete button
openDeleteModal(id) ==
    /\ TableClickable
    /\ id \in RowIds
    /\ recordToDelete' = id
    /\ deleteModalActive' = TRUE
    /\ alertText' = <<>>
    /\ UNCHANGED <<kind, db, inflight, query, loaded, panels, formModal>>
    /\ UNCHANGED <<earlier, validator>>

\* closeDeleteModal() had it reloaded the list
closeDeleteModalReloading ==
    /\ deleteModalActive
    /\ CloseDeleteModalEffect
    /\ alertText' = <<>>
    /\ UNCHANGED query
    /\ LoadData(inflight)
    /\ UNCHANGED <<kind, db, loaded, formModal>>
    /\ UNCHANGED <<earlier, validator>>

\* closeDeleteModal(), from deleteModalClose, deleteModalOverlay or
\* deleteCancelBtn
closeDeleteModal ==
    /\ deleteModalActive
    /\ CloseDeleteModalEffect
    /\ alertText' = <<>>
    /\ UNCHANGED <<kind, db, inflight, query, loaded, panels, formModal>>
    /\ UNCHANGED <<earlier, validator>>

\* confirmDelete() up to its await, from deleteConfirmBtn
confirmDelete ==
    /\ deleteModalActive
    /\ alertText' = <<>>
    /\ IF recordToDelete = 0
       THEN UNCHANGED inflight
       ELSE /\ CanFetch
            /\ inflight' = Append(inflight, [NoRequest EXCEPT !.type = "delete",
                                                            !.id = recordToDelete])
    /\ UNCHANGED <<kind, db, query, loaded, panels, formModal, delModal>>
    /\ UNCHANGED <<earlier, validator>>

\* confirmDelete()'s catch had it closed the modal
DeleteResponseClosing(n, ok) ==
    /\ n \in 1..Len(inflight)
    /\ inflight[n].type = "delete"
    /\ ok => db[inflight[n].id] # 0
    /\ IF ok
       THEN /\ db' = [db EXCEPT ![inflight[n].id] = 0]
            /\ CloseDeleteModalEffect
            /\ UNCHANGED query
            /\ LoadData(Without(inflight, n))
            /\ alertText' = <<>>
       ELSE /\ inflight' = Without(inflight, n)
            /\ alertText' = <<"Failed to delete record. Please try again.">>
            /\ CloseDeleteModalEffect
            /\ UNCHANGED <<db, query, panels>>
    /\ UNCHANGED <<kind, loaded, formModal>>
    /\ UNCHANGED <<earlier, validator>>

\* confirmDelete() after its await: lines 383-386, or the catch
DeleteResponse(n, ok) ==
    /\ n \in 1..Len(inflight)
    /\ inflight[n].type = "delete"
    /\ ok => db[inflight[n].id] # 0
    /\ IF ok
       THEN /\ db' = [db EXCEPT ![inflight[n].id] = 0]
            /\ CloseDeleteModalEffect
            /\ UNCHANGED query
            /\ LoadData(Without(inflight, n))
            /\ alertText' = <<>>
       ELSE /\ inflight' = Without(inflight, n)
            /\ alertText' = <<"Failed to delete record. Please try again.">>
            /\ UNCHANGED <<db, query, panels, delModal>>
    /\ UNCHANGED <<kind, loaded, formModal>>
    /\ UNCHANGED <<earlier, validator>>

\* the alert of a failed write, per entity class
SaveFailedAlert(k) ==
    CASE k = "Student" -> <<"Failed to save student. Please try again.">>
      [] k = "Course" -> <<"Failed to save course. Please try again.">>
      [] k = "Instructor" -> <<"Failed to save instructor. Please try again.">>
      [] k = "Employee" -> <<"Failed to save employee. Please try again.">>

\* what FormData reads from recordForm: the values renderForm() wrote for
\* currentRecord (the two are always set together), or what the user typed
FormData ==
    IF form = 0 THEN RenderForm(kind, currentRecord) ELSE FormsOf(kind)[form]

\* the data a validator of class k reads from a form of another class: a
\* field the form lacks is undefined, which the validators treat as ''
FormDataFor(k, fields) ==
    [f \in DOMAIN BlankForm(k) |-> IF f \in DOMAIN fields THEN fields[f] ELSE <<>>]

\* the validation alert of the last earlier view that refuses the form
EarlierSubmitAlert ==
    LET refusing == {i \in DOMAIN earlier.views :
                       ~Validate(earlier.views[i].kind,
                                 FormDataFor(earlier.views[i].kind, FormData)).isValid}
        last == CHOOSE i \in refusing : \A j \in refusing : j <= i
    IN IF refusing = {} THEN <<>>
       ELSE <<"Validation errors:">>
            \o Validate(earlier.views[last].kind,
                        FormDataFor(earlier.views[last].kind, FormData)).errors

\* every earlier view is of another class than the form's and refuses it
EarlierRefuseForm ==
    \A i \in DOMAIN earlier.views :
        ~Validate(earlier.views[i].kind,
                  FormDataFor(earlier.views[i].kind, FormData)).isValid

\* saveRecord(): the PUT or POST chosen by this.currentRecord; body is
\* the converted data
WriteRequest(body) ==
    IF currentRecord # NoRecord
    THEN [NoRequest EXCEPT !.type = "put", !.id = currentRecord.id,
                           !.body = BodyNumber(kind, body),
                           !.bodyId = currentRecord.id]
    ELSE [NoRequest EXCEPT !.type = "post", !.body = BodyNumber(kind, body)]

\* Course.getCourseByCode(code) up to its await; the caller's data is kept
\* for the write that follows
CodeLookup(body) ==
    [NoRequest EXCEPT !.type = "lookup", !.hasQ = TRUE,
                      !.q = EncodeURIComponent(body.code),
                      !.body = BodyNumber(kind, body)]

\* saveRecord() had it validated only a form the user left as rendered
saveRecordUnvalidated ==
    /\ formModalActive
    /\ LET validation == Validate(kind, FormData)
           body == ConvertData(kind, FormData)
       IN IF ~validation.isValid /\ form = 0
          THEN /\ alertText' = <<"Validation errors:">> \o validation.errors
               /\ UNCHANGED inflight
          ELSE /\ CanFetch
               /\ alertText' = EarlierSubmitAlert
               /\ inflight' = Append(inflight,
                       IF kind = "Course" /\ currentRecord = NoRecord
                       THEN CodeLookup(body)
                       ELSE WriteRequest(body))
    /\ EarlierRefuseForm
    /\ UNCHANGED <<kind, db, query, loaded, panels, formModal, delModal>>
    /\ UNCHANGED <<earlier, validator>>

\* saveRecord() of the entity class up to its first await, from the form's
\* submit listener: validation, conversion, then the first fetch
saveRecord ==
    /\ formModalActive
    /\ LET validation == Validate(kind, FormData)
           body == ConvertData(kind, FormData)
       IN IF ~validation.isValid
          THEN /\ alertText' = <<"Validation errors:">> \o validation.errors
               /\ UNCHANGED inflight
          ELSE /\ CanFetch
               /\ alertText' = EarlierSubmitAlert
               /\ inflight' = Append(inflight,
                       IF kind = "Course" /\ currentRecord = NoRecord
                       THEN CodeLookup(body)
                       ELSE WriteRequest(body))
    /\ EarlierRefuseForm
    /\ UNCHANGED <<kind, db, query, loaded, panels, formModal, delModal>>
    /\ UNCHANGED <<earlier, validator>>

\* Course.saveRecord() had it written the course whatever the lookup found
LookupResponseIgnoringHit(n, ok) ==
    /\ n \in 1..Len(inflight)
    /\ inflight[n].type = "lookup"
    /\ alertText' = <<>>
    /\ inflight' = Append(Without(inflight, n),
                          WriteRequest(Body(kind, inflight[n].body)))
    /\ UNCHANGED <<kind, db, query, loaded, panels, formModal, delModal>>
    /\ UNCHANGED <<earlier, validator>>

\* the continuation had the check and the create been one step: no POST
\* when a POST of the same course is already pending
LookupResponseAtomic(n, ok) ==
    /\ n \in 1..Len(inflight)
    /\ inflight[n].type = "lookup"
    /\ LET courses == IF ok THEN ServerByCode(kind, db, inflight[n].q) ELSE <<>>
           existingCourse ==
               \/ Len(courses) > 0
               \/ \E m \in 1..Len(inflight) :
                      inflight[m].type = "post" /\ inflight[m].body = inflight[n].body
       IN IF existingCourse
          THEN /\ alertText' = <<"Course code ", Body(kind, inflight[n].body).code,
                                  " already exists!">>
               /\ inflight' = Without(inflight, n)
          ELSE /\ alertText' = <<>>
               /\ inflight' = Append(Without(inflight, n),
                                      WriteRequest(Body(kind, inflight[n].body)))
    /\ UNCHANGED <<kind, db, query, loaded, panels, formModal, delModal>>
    /\ UNCHANGED <<earlier, validator>>

\* Course.saveRecord() after getCourseByCode resolves: lines 239-262.
\* A failed lookup is caught inside getCourseByCode and gives null.
LookupResponse(n, ok) ==
    /\ n \in 1..Len(inflight)
    /\ inflight[n].type = "lookup"
    /\ LET courses == IF ok THEN ServerByCode(kind, db, inflight[n].q) ELSE <<>>
           existingCourse == Len(courses) > 0
       IN IF existingCourse
          THEN /\ alertText' = <<"Course code ", Body(kind, inflight[n].body).code,
                                  " already exists!">>
               /\ inflight' = Without(inflight, n)
          ELSE /\ alertText' = <<>>
               /\ inflight' = Append(Without(inflight, n),
                                      WriteRequest(Body(kind, inflight[n].body)))
    /\ UNCHANGED <<kind, db, query, loaded, panels, formModal, delModal>>
    /\ UNCHANGED <<earlier, validator>>

\* saveRecord()'s continuation had it reloaded without closing the modal
WriteResponseKeepingModal(n, ok) ==
    /\ n \in 1..Len(inflight)
    /\ inflight[n].type \in {"post", "put"}
    /\ ok => IF inflight[n].type = "put"
             THEN db[inflight[n].id] # 0
             ELSE Stored(db) # Ids
    /\ IF ok
       THEN /\ db' = IF inflight[n].type = "put"
                     THEN [db EXCEPT ![inflight[n].id] = inflight[n].body]
                     ELSE [db EXCEPT ![NextId(db)] = inflight[n].body]
            /\ UNCHANGED <<query, formModal>>
            /\ LoadData(Without(inflight, n))
            /\ alertText' = <<>>
       ELSE /\ inflight' = Without(inflight, n)
            /\ alertText' = SaveFailedAlert(kind)
            /\ UNCHANGED <<db, panels, formModal>>
    /\ UNCHANGED <<kind, query, loaded, delModal>>
    /\ UNCHANGED <<earlier, validator>>

\* saveRecord() whose catch reset the form and reloaded the list
WriteResponseResettingForm(n, ok) ==
    /\ n \in 1..Len(inflight)
    /\ inflight[n].type \in {"post", "put"}
    /\ ok => IF inflight[n].type = "put"
             THEN db[inflight[n].id] # 0
             ELSE Stored(db) # Ids
    /\ IF ok
       THEN /\ db' = IF inflight[n].type = "put"
                     THEN [db EXCEPT ![inflight[n].id] = inflight[n].body]
                     ELSE [db EXCEPT ![NextId(db)] = inflight[n].body]
            /\ CloseModalEffect
            /\ alertText' = <<>>
       ELSE /\ form' = 0
            /\ alertText' = SaveFailedAlert(kind)
            /\ UNCHANGED <<db, formModalActive, currentRecord>>
    /\ UNCHANGED <<kind, query, loaded, delModal>>
    /\ LoadData(Without(inflight, n))
    /\ UNCHANGED <<earlier, validator>>

\* saveRecord() after the PUT or POST resolves: closeModal and loadData, or
\* the catch
WriteResponse(n, ok) ==
    /\ n \in 1..Len(inflight)
    /\ inflight[n].type \in {"post", "put"}
    /\ ok => IF inflight[n].type = "put"
             THEN db[inflight[n].id] # 0
             ELSE Stored(db) # Ids
    /\ IF ok
       THEN /\ db' = IF inflight[n].type = "put"
                     THEN [db EXCEPT ![inflight[n].id] = inflight[n].body]
                     ELSE [db EXCEPT ![NextId(db)] = inflight[n].body]
            /\ CloseModalEffect
            /\ UNCHANGED query
            /\ LoadData(Without(inflight, n))
            /\ alertText' = <<>>
       ELSE /\ inflight' = Without(inflight, n)
            /\ alertText' = SaveFailedAlert(kind)
            /\ UNCHANGED <<db, panels, formModal>>
    /\ UNCHANGED <<kind, query, loaded, delModal>>
    /\ UNCHANGED <<earlier, validator>>

(***************************************************************************)
(* The validators as functions: a candidate is the data a form of its      *)
(* class can deliver (text inputs: any text; number and date inputs: a     *)
(* number, a date or nothing; selects: an option or nothing).              *)
(***************************************************************************)
StudentCandidates ==
    [name : {<<>>, <<"A", "l">>, <<"A", "n", "n">>, <<" ", " ", "A", "l", " ", " ">>},
     email : {<<>>, <<"a", "@", "b", ".", "e", "d", "u">>, <<"a", "b", ".", "e", "d", "u">>, <<"a", "@", "b">>},
     phone : {<<>>, <<"1", "2", "3", "4", "5", "6", "7", "8", "9">>, <<"1", "2", "3", "4", "5", "6", "7", "8", "9", "0">>, <<"1", "2", "3", "4", "5", "6", "7", "8", " ", " ">>},
     gpa : {<<>>, <<"4", ".", "5">>, <<"4">>, <<"0">>, <<"-", "1">>, <<"3", ".", "7">>, <<"4", ".", "0", "1">>},
     department : {<<>>, <<"B", "u", "s", "i", "n", "e", "s", "s">>},
     enrollmentDate : {<<>>, <<"2", "0", "2", "3", "-", "0", "1", "-", "0", "1">>}]

CourseCandidates ==
    [code : {<<>>, <<"c", "s", "1", "0", "1">>, <<"C", "S", "1", "0", "1">>, <<"M", "A", "T", "H", "2", "0", "1">>, <<"c", "1">>, <<"A", "B", "C", "D", "E", "1", "2", "3">>, <<"C", "S", "1", "0", "1", "1">>, <<"c", "s", "1", "0", "a">>},
     name : {<<>>, <<"M", "a", "t", "h">>, <<"A", "l", "g", "e", "b", "r", "a">>},
     credits : {<<>>, <<"0">>, <<"1">>, <<"6">>, <<"7">>, <<"3">>},
     department : {<<>>, <<"E", "n", "g", "i", "n", "e", "e", "r", "i", "n", "g">>},
     instructor : {<<>>, <<"D", "r">>, <<"D", "r", ".", " ", "L", "e", "e">>}]

InstructorCandidates ==
    [name : {<<>>, <<"D", "r", " ", "A">>, <<"D", "r", ".", " ", "L", "e", "e">>},
     email : {<<>>, <<"l", "e", "e", "@", "u", "n", "i", ".", "e", "d", "u">>, <<"l", "e", "e", "@", "u", "n", "i">>},
     phone : {<<>>, <<"1", "2", "3", "4", "5", "6", "7", "8", "9", "0">>},
     department : {<<>>, <<"B", "u", "s", "i", "n", "e", "s", "s">>},
     specialization : {<<>>, <<"A", "I">>, <<"S", "y", "s", "t", "e", "m", "s">>},
     hireDate : {<<>>, <<"2", "0", "1", "5", "-", "0", "9", "-", "0", "1">>, <<"2", "9", "9", "9", "-", "0", "1", "-", "0", "1">>, <<"2", "0", "2", "4", "-", "0", "6", "-", "1", "5">>, <<"2", "0", "2", "4", "-", "0", "6", "-", "1", "6">>, <<"1", "9", "9", "9", "-", "1", "2", "-", "3", "1">>, <<"2", "0", "0", "0", "-", "0", "1", "-", "0", "1">>}]

EmployeeCandidates ==
    [name : {<<>>, <<"A", "l">>, <<"S", "a", "m", " ", "L", "e", "e">>},
     email : {<<>>, <<"s", "a", "m", "@", "u", "n", "i", ".", "e", "d", "u">>, <<"s", "a", "m", " ", "u", "n", "i", ".", "e", "d", "u">>},
     phone : {<<>>, <<"1", "2", "3", "4", "5", "6", "7", "8", "9">>, <<"1", "2", "3", "4", "5", "6", "7", "8", "9", "0">>},
     position : {<<>>, <<"A", "c", "a", "d", "e", "m", "i", "c", " ", "A", "d", "v", "i", "s", "o", "r">>},
     department : {<<>>, <<"A", "d", "m", "i", "s", "s", "i", "o", "n", "s">>},
     hireDate : {<<>>, <<"2", "0", "1", "0", "-", "0", "3", "-", "0", "1">>, <<"2", "9", "9", "9", "-", "0", "1", "-", "0", "1">>, <<"2", "0", "2", "4", "-", "0", "6", "-", "1", "5">>, <<"2", "0", "2", "4", "-", "0", "6", "-", "1", "6">>, <<"1", "9", "9", "9", "-", "1", "2", "-", "3", "1">>, <<"2", "0", "0", "0", "-", "0", "1", "-", "0", "1">>}]

CandidatesOf(k) ==
    CASE k = "Student" -> StudentCandidates
      [] k = "Course" -> CourseCandidates
      [] k = "Instructor" -> InstructorCandidates
      [] k = "Employee" -> EmployeeCandidates

\* a page of class k whose form delivers one of the candidates
InitValidate ==
    \E k \in Kinds :
        /\ kind = k
        /\ db = [i \in Ids |-> 0]
        /\ currentPage = 1
        /\ itemsPerPage = 10
        /\ totalItems = 0
        /\ totalPages = 0
        /\ sortColumn = Null
        /\ sortOrder = "asc"
        /\ searchQuery = <<>>
        /\ data = <<>>
        /\ currentRecord = NoRecord
        /\ recordToDelete = 0
        /\ formModalActive = TRUE
        /\ deleteModalActive = FALSE
        /\ prevDisabled = TRUE
        /\ nextDisabled = TRUE
        /\ form = 0
        /\ alertText = <<>>
        /\ loadingDisplay = "none"
        /\ tableDisplay = "table"
        /\ errorDisplay = "none"
        /\ inflight = <<>>
        /\ earlier = NoEarlier
        /\ \E d \in CandidatesOf(k) : candidate = [kind |-> k, data |-> d]
        /\ result = NoResult

\* saveRecord(): const validation = this.validateX(data)
ValidateCandidate ==
    /\ result.stage = "none"
    /\ LET v == Validate(candidate.kind, candidate.data)
       IN result' = [stage |-> "validated", isValid |-> v.isValid,
                     errors |-> v.errors, body |-> candidate.data]
    /\ UNCHANGED <<kind, db, inflight, query, loaded, panels, formModal, delModal,
                   alertText, earlier, candidate>>

\* saveRecord() after a validation that passed: the conversions of the data
\* that becomes the body of the POST or PUT
ConvertCandidate ==
    /\ result.stage = "validated"
    /\ result.isValid
    /\ result' = [result EXCEPT !.stage = "converted",
                                !.body = ConvertData(candidate.kind, candidate.data)]
    /\ UNCHANGED <<kind, db, inflight, query, loaded, panels, formModal, delModal,
                   alertText, earlier, candidate>>

(***************************************************************************)
(* Navigation between the entity classes.                                  *)
(***************************************************************************)
\* the view as an earlier view
AsEarlier ==
    [kind |-> kind, db |-> db, currentPage |-> currentPage,
     itemsPerPage |-> itemsPerPage, totalPages |-> totalPages,
     searchQuery |-> searchQuery, sortColumn |-> sortColumn, sortOrder |-> sortOrder]

\* loadPage(page), from a nav link: a class not loaded before, both dialogs
\* closed and only list requests pending.  The module of class k is
\* constructed and init() loads its data; the view left becomes the latest
\* earlier view, and its pending requests and the rows it wrote stay its own.
Navigate(k) ==
    /\ PageClickable
    /\ Len(earlier.views) < MaxEarlier
    /\ k # kind /\ \A i \in DOMAIN earlier.views : earlier.views[i].kind # k
    /\ \A n \in 1..Len(inflight) : inflight[n].type = "list"
    /\ LET me == Len(earlier.views) + 1
       IN earlier' = [views |-> Append(earlier.views, AsEarlier),
                      requests |-> earlier.requests
                                     \o [n \in 1..Len(inflight) |->
                                            [view |-> me, url |-> inflight[n]]],
                      table |-> IF earlier.table = 0 THEN me ELSE earlier.table]
    /\ kind' = k
    /\ db' = [i \in Ids |-> IF i <= 2 THEN i ELSE 0]
    /\ currentPage' = 1
    /\ itemsPerPage' = 10
    /\ totalItems' = 0
    /\ totalPages' = 0
    /\ sortColumn' = Null
    /\ sortOrder' = "asc"
    /\ searchQuery' = <<>>
    /\ data' = <<>>
    /\ currentRecord' = NoRecord
    /\ recordToDelete' = 0
    /\ LoadData(<<>>)
    /\ alertText' = <<>>
    /\ UNCHANGED <<formModalActive, deleteModalActive, form, prevDisabled, nextDisabled>>
    /\ UNCHANGED validator

\* loadData() of an earlier view after its await; the server sends
\* X-Total-Count.  The view renders its rows into the table of the page.
EarlierListResponse(n, ok) ==
    /\ n \in 1..Len(earlier.requests)
    /\ LET r == earlier.requests[n]
           w == earlier.views[r.view]
           count == ParseInt(ServerTotalCount(w.kind, w.db, r.url))[1]
           pages == Ceil(count, w.itemsPerPage)
       IN IF ok
          THEN /\ earlier' = [earlier EXCEPT !.views[r.view].totalPages = pages,
                                             !.requests = Without(@, n),
                                             !.table = r.view]
               /\ prevDisabled' = PrevBtnDisabled(w.currentPage)
               /\ nextDisabled' = NextBtnDisabled(w.currentPage, pages)
               /\ loadingDisplay' = "none"
               /\ tableDisplay' = "table"
               /\ UNCHANGED errorDisplay
          ELSE /\ earlier' = [earlier EXCEPT !.requests = Without(@, n)]
               /\ errorDisplay' = "flex"
               /\ loadingDisplay' = "none"
               /\ tableDisplay' = "table"
               /\ UNCHANGED <<prevDisabled, nextDisabled>>
    /\ alertText' = <<>>
    /\ UNCHANGED <<kind, db, inflight, query, data, totalItems, totalPages,
                   formModal, delModal>>
    /\ UNCHANGED validator

(***************************************************************************)
(* The view's behaviours.  User events are grouped by the controls they    *)
(* come from; a response may arrive for any pending fetch, in any order,   *)
(* and may report success or failure.                                      *)
(***************************************************************************)
QueryEvent ==
    \/ \E q \in SearchInputs : SearchInput(q)
    \/ \E v \in PageSizeOptions : ItemsPerPageChange(v)
    \/ \E c \in SortableColumns : sortBy(c)
    \/ previousPage
    \/ nextPage

FormEvent ==
    \/ openAddModal
    \/ \E id \in Ids : openEditModal(id)
    \/ \E f \in FormNumbers(kind) : TypeForm(f)
    \/ closeModal
    \/ saveRecord

DeleteEvent ==
    \/ \E id \in Ids : openDeleteModal(id)
    \/ closeDeleteModal
    \/ confirmDelete

ListResponses ==
    \E n \in 1..MaxInflight, ok \in BOOLEAN, hasCount \in BOOLEAN :
        ListResponse(n, ok, hasCount)

\* the list responses of a server that sends X-Total-Count with every list
ListResponsesCounted ==
    \E n \in 1..MaxInflight, ok \in BOOLEAN : ListResponse(n, ok, ok)

DeleteResponses ==
    \E n \in 1..MaxInflight, ok \in BOOLEAN : DeleteResponse(n, ok)

FormResponses ==
    \E n \in 1..MaxInflight, ok \in BOOLEAN :
        \/ GetResponse(n, ok)
        \/ LookupResponse(n, ok)
        \/ WriteResponse(n, ok)

\* every event of the view
Next ==
    \/ QueryEvent \/ FormEvent \/ DeleteEvent
    \/ ListResponses \/ DeleteResponses \/ FormResponses

\* a view of any entity class over a collection of two records
Init == \E k \in Kinds : InitView(k, [i \in Ids |-> IF i <= 2 THEN i ELSE 0])
Spec == Init /\ [][Next]_vars

\* a students view whose user searches, sorts and pages
InitQuery == InitView("Student", [i \in Ids |-> IF i <= 2 THEN i ELSE 0])
NextQuery == QueryEvent \/ ListResponses
SpecQuery == InitQuery /\ [][NextQuery]_vars

\* a students view whose user searches, sorts and pages, the list requests
\* all being answered
NextList == QueryEvent \/ \E n \in 1..MaxInflight : ListResponse(n, TRUE, TRUE)
SpecList == InitQuery /\ [][NextList]_vars

\* a students view over two records that the search text does not match,
\* whose user searches and chooses a page size, the server sending
\* X-Total-Count or not
InitCount == InitView("Student", [i \in Ids |-> IF i <= 2 THEN 2 ELSE 0])
NextCount ==
    \/ \E q \in SearchInputs : SearchInput(q)
    \/ \E v \in PageSizeOptions : ItemsPerPageChange(v)
    \/ nextPage
    \/ ListResponses
SpecCount == InitCount /\ [][NextCount]_vars

\* texts that new Date() turns into Invalid Date
UnparsedHireDates == {<<"s", "o", "o", "n">>, <<"n", "/", "a">>}

\* the employee and instructor candidates with a hire date that is a text
\* and no date, as a hireDate control that takes text delivers it
UnparsedCandidates(k) ==
    {[d EXCEPT !.hireDate = h] : d \in CandidatesOf(k), h \in UnparsedHireDates}

\* an employees or instructors page whose form delivers such a candidate
InitHireDate ==
    \E k \in {"Employee", "Instructor"} :
        /\ kind = k
        /\ db = [i \in Ids |-> 0]
        /\ currentPage = 1
        /\ itemsPerPage = 10
        /\ totalItems = 0
        /\ totalPages = 0
        /\ sortColumn = Null
        /\ sortOrder = "asc"
        /\ searchQuery = <<>>
        /\ data = <<>>
        /\ currentRecord = NoRecord
        /\ recordToDelete = 0
        /\ formModalActive = TRUE
        /\ deleteModalActive = FALSE
        /\ prevDisabled = TRUE
        /\ nextDisabled = TRUE
        /\ form = 0
        /\ alertText = <<>>
        /\ loadingDisplay = "none"
        /\ tableDisplay = "table"
        /\ errorDisplay = "none"
        /\ inflight = <<>>
        /\ earlier = NoEarlier
        /\ \E d \in UnparsedCandidates(k) : candidate = [kind |-> k, data |-> d]
        /\ result = NoResult
NextHireDate == ValidateCandidate \/ ConvertCandidate
SpecHireDate == InitHireDate /\ [][NextHireDate]_vars

\* texts of zero to seven characters, some of them padded with spaces, as
\* a text control delivers them
LengthTexts ==
    {<<>>,
     <<" ", " ", " ">>,
     <<"A", "l">>,
     <<"A", "n", "n">>,
     <<" ", " ", "A", "l", " ", " ">>,
     <<" ", "A", "n", "n", " ">>,
     <<"D", "r", " ", "A">>,
     <<"D", "r", " ", "A", "l">>,
     <<"A", "l", "g", "e", "b", "r", "a">>}

\* the candidates of class k that pass its validator, with the name, and
\* for an instructor the specialization, replaced by one of the texts
LengthCandidates(k) ==
    LET passing == {d \in CandidatesOf(k) : Validate(k, d).isValid}
        named == {[d EXCEPT !.name = n] : d \in passing, n \in LengthTexts}
    IN IF k = "Instructor"
       THEN {[d EXCEPT !.specialization = t] : d \in named, t \in LengthTexts}
       ELSE named

\* a page of class k whose form delivers such a candidate
InitLengths ==
    \E k \in Kinds :
        /\ kind = k
        /\ db = [i \in Ids |-> 0]
        /\ currentPage = 1
        /\ itemsPerPage = 10
        /\ totalItems = 0
        /\ totalPages = 0
        /\ sortColumn = Null
        /\ sortOrder = "asc"
        /\ searchQuery = <<>>
        /\ data = <<>>
        /\ currentRecord = NoRecord
        /\ recordToDelete = 0
        /\ formModalActive = TRUE
        /\ deleteModalActive = FALSE
        /\ prevDisabled = TRUE
        /\ nextDisabled = TRUE
        /\ form = 0
        /\ alertText = <<>>
        /\ loadingDisplay = "none"
        /\ tableDisplay = "table"
        /\ errorDisplay = "none"
        /\ inflight = <<>>
        /\ earlier = NoEarlier
        /\ \E d \in LengthCandidates(k) : candidate = [kind |-> k, data |-> d]
        /\ result = NoResult
NextLengths == ValidateCandidate \/ ConvertCandidate
SpecLengths == InitLengths /\ [][NextLengths]_vars

\* a page of class k whose form delivers one of the candidates of D
InitCandidate(k, D) ==
    /\ kind = k
    /\ db = [i \in Ids |-> 0]
    /\ currentPage = 1
    /\ itemsPerPage = 10
    /\ totalItems = 0
    /\ totalPages = 0
    /\ sortColumn = Null
    /\ sortOrder = "asc"
    /\ searchQuery = <<>>
    /\ data = <<>>
    /\ currentRecord = NoRecord
    /\ recordToDelete = 0
    /\ formModalActive = TRUE
    /\ deleteModalActive = FALSE
    /\ prevDisabled = TRUE
    /\ nextDisabled = TRUE
    /\ form = 0
    /\ alertText = <<>>
    /\ loadingDisplay = "none"
    /\ tableDisplay = "table"
    /\ errorDisplay = "none"
    /\ inflight = <<>>
    /\ earlier = NoEarlier
    /\ \E d \in D : candidate = [kind |-> k, data |-> d]
    /\ result = NoResult

\* values of the credits control, a number input without a step: nothing,
\* whole numbers in and out of the range, decimals and a negative number
CreditsTexts ==
    {<<>>,
     <<"0">>,
     <<"1">>,
     <<"3">>,
     <<"6">>,
     <<"7">>,
     <<"3", ".", "5">>,
     <<"6", ".", "9">>,
     <<"0", ".", "5">>,
     <<"-", "1">>}

\* the course candidates with the credits replaced by one of these values
CreditsCandidates ==
    {[d \in {"code", "name", "credits", "department", "instructor"} |->
         IF d = "credits" THEN c ELSE r[d]] : r \in CourseCandidates, c \in CreditsTexts}
InitCredits == InitCandidate("Course", CreditsCandidates)
NextCredits == ValidateCandidate \/ ConvertCandidate
SpecCredits == InitCredits /\ [][NextCredits]_vars

\* the options of the department select in the schema of class k
DepartmentOptions(k) ==
    IF k = "Student" THEN
    {<<"C", "o", "m", "p", "u", "t", "e", "r", " ", "S", "c", "i", "e", "n", "c", "e">>,
     <<"E", "n", "g", "i", "n", "e", "e", "r", "i", "n", "g">>,
     <<"B", "u", "s", "i", "n", "e", "s", "s">>,
     <<"M", "e", "d", "i", "c", "i", "n", "e">>,
     <<"A", "r", "t", "s">>,
     <<"S", "c", "i", "e", "n", "c", "e">>}
    ELSE IF k = "Employee" THEN
    {<<"A", "d", "m", "i", "n", "i", "s", "t", "r", "a", "t", "i", "o", "n">>,
     <<"A", "d", "m", "i", "s", "s", "i", "o", "n", "s">>,
     <<"S", "t", "u", "d", "e", "n", "t", " ", "S", "e", "r", "v", "i", "c", "e", "s">>,
     <<"F", "i", "n", "a", "n", "c", "i", "a", "l", " ", "A", "i", "d">>,
     <<"R", "e", "g", "i", "s", "t", "r", "a", "r">>,
     <<"H", "u", "m", "a", "n", " ", "R", "e", "s", "o", "u", "r", "c", "e", "s">>,
     <<"I", "T", " ", "D", "e", "p", "a", "r", "t", "m", "e", "n", "t">>,
     <<"F", "a", "c", "i", "l", "i", "t", "i", "e", "s">>,
     <<"A", "c", "a", "d", "e", "m", "i", "c", " ", "A", "f", "f", "a", "i", "r", "s">>,
     <<"S", "t", "u", "d", "e", "n", "t", " ", "A", "f", "f", "a", "i", "r", "s">>}
    ELSE
    {<<"C", "o", "m", "p", "u", "t", "e", "r", " ", "S", "c", "i", "e", "n", "c", "e">>,
     <<"E", "n", "g", "i", "n", "e", "e", "r", "i", "n", "g">>,
     <<"B", "u", "s", "i", "n", "e", "s", "s">>,
     <<"M", "e", "d", "i", "c", "i", "n", "e">>,
     <<"A", "r", "t", "s">>,
     <<"S", "c", "i", "e", "n", "c", "e">>,
     <<"M", "a", "t", "h", "e", "m", "a", "t", "i", "c", "s">>,
     <<"P", "h", "y", "s", "i", "c", "s">>,
     <<"C", "h", "e", "m", "i", "s", "t", "r", "y">>,
     <<"B", "i", "o", "l", "o", "g", "y">>}

\* the options of the position select in the schema of Employee
PositionOptions ==
    {<<"S", "t", "u", "d", "e", "n", "t", " ", "A", "f", "f", "a", "i", "r", "s", " ", "O", "f", "f", "i", "c", "e", "r">>,
     <<"R", "e", "g", "i", "s", "t", "r", "a", "t", "i", "o", "n", " ", "C", "o", "o", "r", "d", "i", "n", "a", "t", "o", "r">>,
     <<"A", "c", "a", "d", "e", "m", "i", "c", " ", "A", "d", "v", "i", "s", "o", "r">>,
     <<"A", "d", "m", "i", "s", "s", "i", "o", "n", "s", " ", "O", "f", "f", "i", "c", "e", "r">>,
     <<"F", "i", "n", "a", "n", "c", "i", "a", "l", " ", "A", "i", "d", " ", "O", "f", "f", "i", "c", "e", "r">>,
     <<"R", "e", "c", "o", "r", "d", "s", " ", "M", "a", "n", "a", "g", "e", "r">>,
     <<"I", "T", " ", "S", "u", "p", "p", "o", "r", "t", " ", "S", "p", "e", "c", "i", "a", "l", "i", "s", "t">>,
     <<"A", "d", "m", "i", "n", "i", "s", "t", "r", "a", "t", "i", "v", "e", " ", "A", "s", "s", "i", "s", "t", "a", "n", "t">>,
     <<"H", "R", " ", "M", "a", "n", "a", "g", "e", "r">>,
     <<"F", "a", "c", "i", "l", "i", "t", "i", "e", "s", " ", "M", "a", "n", "a", "g", "e", "r">>}

\* renderForm(): a select offers the empty option and the options of the
\* field, and its value is the value of the option chosen
SelectValues(options) == {<<>>} \cup options

\* the candidates of class k that pass its validator, with each select
\* field replaced by a value of its select
SelectCandidates(k) ==
    LET passing == {d \in CandidatesOf(k) : Validate(k, d).isValid}
        placed == {[d EXCEPT !.department = v] :
                      d \in passing, v \in SelectValues(DepartmentOptions(k))}
    IN IF k = "Employee"
       THEN {[d EXCEPT !.position = v] : d \in placed, v \in SelectValues(PositionOptions)}
       ELSE placed
InitSelect == \E k \in Kinds : InitCandidate(k, SelectCandidates(k))
NextSelect == ValidateCandidate \/ ConvertCandidate
SpecSelect == InitSelect /\ [][NextSelect]_vars

\* a courses view over one course whose user adds a course with another
\* code and edits the course held, every request being answered
InitCourse == InitView("Course", [i \in Ids |-> IF i = 1 THEN 1 ELSE 0])
NextCourse ==
    \/ openAddModal
    \/ openEditModal(1)
    \/ TypeForm(2)
    \/ closeModal
    \/ saveRecord
    \/ \E n \in 1..MaxInflight : ListResponse(n, TRUE, TRUE)
    \/ \E n \in 1..MaxInflight : GetResponse(n, TRUE)
    \/ \E n \in 1..MaxInflight : LookupResponse(n, TRUE)
    \/ \E n \in 1..MaxInflight : WriteResponse(n, TRUE)
SpecCourse == InitCourse /\ [][NextCourse]_vars

\* a courses view over one course whose user adds a course with another
\* code and may submit the add form again before the answer, every request
\* being answered
NextRace ==
    \/ openAddModal
    \/ TypeForm(2)
    \/ closeModal
    \/ saveRecord
    \/ \E n \in 1..MaxInflight : ListResponse(n, TRUE, TRUE)
    \/ \E n \in 1..MaxInflight : LookupResponse(n, TRUE)
    \/ \E n \in 1..MaxInflight : WriteResponse(n, TRUE)
SpecRace == InitCourse /\ [][NextRace]_vars

\* a students view whose user chooses a page size, pages and deletes, the
\* server sending X-Total-Count
NextDelete ==
    \/ \E v \in PageSizeOptions : ItemsPerPageChange(v)
    \/ previousPage \/ nextPage
    \/ DeleteEvent
    \/ ListResponsesCounted \/ DeleteResponses
SpecDelete == InitQuery /\ [][NextDelete]_vars

\* a students view whose user chooses a page size, sorts and pages
NextSort ==
    \/ \E v \in PageSizeOptions : ItemsPerPageChange(v)
    \/ \E c \in SortableColumns : sortBy(c)
    \/ previousPage \/ nextPage
    \/ ListResponsesCounted
SpecSort == InitQuery /\ [][NextSort]_vars

\* a view of any entity class whose user adds records and edits the first
\* one, filling the form with the first valid record or with the invalid
\* one, the list requests all being answered
NextForm ==
    \/ openAddModal
    \/ openEditModal(1)
    \/ \E f \in {1, Len(FormsOf(kind))} : TypeForm(f)
    \/ closeModal
    \/ saveRecord
    \/ \E n \in 1..MaxInflight : ListResponse(n, TRUE, TRUE)
    \/ FormResponses
SpecForm == Init /\ [][NextForm]_vars

\* a view of any entity class over a collection of one record whose user
\* adds records, the list requests all being answered
InitAdd == \E k \in Kinds : InitView(k, [i \in Ids |-> IF i = 1 THEN 1 ELSE 0])
NextAdd ==
    \/ openAddModal
    \/ \E f \in FormNumbers(kind) : TypeForm(f)
    \/ closeModal
    \/ saveRecord
    \/ \E n \in 1..MaxInflight : ListResponse(n, TRUE, TRUE)
    \/ \E n \in 1..MaxInflight, ok \in BOOLEAN :
           LookupResponse(n, ok) \/ WriteResponse(n, ok)
SpecAdd == InitAdd /\ [][NextAdd]_vars

\* a students view whose user edits its records, filling the form with the
\* second valid record, the list requests all being answered
NextEdit ==
    \/ \E id \in Ids : openEditModal(id)
    \/ TypeForm(2)
    \/ closeModal
    \/ saveRecord
    \/ \E n \in 1..MaxInflight : ListResponse(n, TRUE, TRUE)
    \/ \E n \in 1..MaxInflight, ok \in BOOLEAN : GetResponse(n, ok)
    \/ \E n \in 1..MaxInflight, ok \in BOOLEAN : WriteResponse(n, ok)
SpecEdit == InitQuery /\ [][NextEdit]_vars

\* the validator of every entity class applied to the data a form delivers,
\* and the conversions of the data that passed
NextValidate == ValidateCandidate \/ ConvertCandidate
SpecValidate == InitValidate /\ [][NextValidate]_vars

\* the students view and the courses view its user navigates to, searching
\* and paging in each
NextNav ==
    \/ Navigate("Course")
    \/ \E q \in SearchInputs : SearchInput(q)
    \/ \E v \in PageSizeOptions : ItemsPerPageChange(v)
    \/ previousPage \/ nextPage
    \/ \E n \in 1..MaxInflight : ListResponse(n, TRUE, TRUE)
    \/ \E n \in 1..MaxInflight, ok \in BOOLEAN : EarlierListResponse(n, ok)
SpecNav == InitQuery /\ [][NextNav]_vars

\* a students view whose user opens and closes the two modals
NextModals ==
    \/ openAddModal
    \/ \E id \in Ids : openEditModal(id)
    \/ closeModal
    \/ DeleteEvent
    \/ ListResponsesCounted \/ DeleteResponses
    \/ \E n \in 1..MaxInflight, ok \in BOOLEAN : GetResponse(n, ok)
SpecModals == InitQuery /\ [][NextModals]_vars

(***************************************************************************)
(* The properties of the view.  The events they speak of are named first;  *)
(* a property of an event is a property of every step that is that event.  *)
(***************************************************************************)
\* the number of pending fetches of one type
CountType(seq, t) == Cardinality({n \in 1..Len(seq) : seq[n].type = t})

SaveInvalid == saveRecord /\ ~Validate(kind, FormData).isValid
SaveValid == saveRecord /\ Validate(kind, FormData).isValid
CreateOk == \E n \in 1..Len(inflight) : inflight[n].type = "post" /\ WriteResponse(n, TRUE)
LookupDone == \E n \in 1..Len(inflight), ok \in BOOLEAN : LookupResponse(n, ok)
ListOk == \E n \in 1..Len(inflight), hasCount \in BOOLEAN : ListResponse(n, TRUE, hasCount)
DeleteOk == \E n \in 1..Len(inflight) : DeleteResponse(n, TRUE)
DeleteFailed == \E n \in 1..Len(inflight) : DeleteResponse(n, FALSE)
SortClick == \E c \in SortableColumns : sortBy(c)
QueryChange ==
    \/ \E q \in SearchInputs : SearchInput(q)
    \/ \E v \in PageSizeOptions : ItemsPerPageChange(v)
    \/ SortClick

\* C1: for every record kind, a save from the add or the edit form whose
\* values fail validation issues no request at all (no GET, POST or PUT and
\* no reload), stores nothing, and leaves the form modal open as it was:
\* the same fields, the same currentRecord.
C1_InvalidSaveIssuesNothing ==
    [][SaveInvalid => /\ inflight' = inflight
                      /\ db' = db
                      /\ formModalActive /\ formModalActive'
                      /\ currentRecord' = currentRecord
                      /\ form' = form]_vars

\* an edit form, filled with values that fail validation, has been saved
C1_InvalidSaveSeen ==
    /\ formModalActive
    /\ currentRecord # NoRecord
    /\ form # 0
    /\ Len(alertText) > 1
    /\ alertText[1] = "Validation errors:"

\* C2: 'add new' and one save of a valid record issue one POST and nothing
\* else (for a course, first the one lookup of its code, whose answer issues
\* at most the one POST); the POST's success issues exactly one list
\* request, no other request, and closes the form modal.
C2_AddThenSaveCreatesOnce ==
    [][/\ (SaveValid /\ currentRecord = NoRecord) =>
            /\ Len(inflight') = Len(inflight) + 1
            /\ CountType(inflight', IF kind = "Course" THEN "lookup" ELSE "post")
                 = CountType(inflight, IF kind = "Course" THEN "lookup" ELSE "post") + 1
            /\ formModalActive'
       /\ (LookupDone /\ currentRecord = NoRecord) =>
            /\ CountType(inflight', "lookup") = CountType(inflight, "lookup") - 1
            /\ CountType(inflight', "post") \in
                 {CountType(inflight, "post"), CountType(inflight, "post") + 1}
            /\ Len(inflight') - CountType(inflight', "post")
                 = Len(inflight) - 1 - CountType(inflight, "post")
       /\ CreateOk =>
            /\ Len(inflight') = Len(inflight)
            /\ CountType(inflight', "post") = CountType(inflight, "post") - 1
            /\ CountType(inflight', "list") = CountType(inflight, "list") + 1
            /\ ~formModalActive'
            /\ currentRecord' = NoRecord
            /\ Cardinality(Stored(db')) = Cardinality(Stored(db)) + 1]_vars

\* a record has been created, the form modal is closed and the reload is
\* the one pending fetch
C2_CreatedAndReloading ==
    /\ Stored(db) = {1, 2}
    /\ ~formModalActive
    /\ Len(inflight) = 1
    /\ inflight[1].type = "list"
    /\ loadingDisplay = "flex"

\* C3: when the DELETE of a confirmed delete succeeds, the delete modal is
\* closed, recordToDelete is cleared and exactly one list request is issued.
C3_DeleteSuccessClosesAndReloadsOnce ==
    [][DeleteOk => /\ ~deleteModalActive'
                   /\ recordToDelete' = 0
                   /\ Len(inflight') = Len(inflight)
                   /\ CountType(inflight', "delete") = CountType(inflight, "delete") - 1
                   /\ CountType(inflight', "list") = CountType(inflight, "list") + 1
                   /\ Cardinality(Stored(db')) = Cardinality(Stored(db)) - 1]_vars

\* record 2 has been deleted, the delete modal is closed and the reload is
\* the one pending fetch
C3_DeletedAndReloading ==
    /\ Stored(db) = {1}
    /\ ~deleteModalActive
    /\ recordToDelete = 0
    /\ Len(inflight) = 1
    /\ inflight[1].type = "list"
    /\ loadingDisplay = "flex"

\* C4, as the code has it: when the DELETE of a confirmed delete fails, an
\* error is alerted and nothing else changes: the delete modal and
\* recordToDelete stay as they were (an open confirmation stays open on the
\* same record), nothing is stored, no reload and no second DELETE is issued.
C4_DeleteFailureKeepsModal ==
    [][DeleteFailed => /\ deleteModalActive' = deleteModalActive
                       /\ recordToDelete' = recordToDelete
                       /\ db' = db
                       /\ alertText' = <<"Failed to delete record. Please try again.">>
                       /\ Len(inflight') = Len(inflight) - 1
                       /\ CountType(inflight', "delete") = CountType(inflight, "delete") - 1]_vars

\* C4, as the specification has it: when the DELETE of a confirmed delete
\* fails, the delete modal is no longer active and recordToDelete is
\* cleared, and the delete is not retried.
C4_DeleteFailureCloses ==
    [][DeleteFailed => /\ ~deleteModalActive'
                       /\ recordToDelete' = 0
                       /\ CountType(inflight', "delete") = CountType(inflight, "delete") - 1]_vars

\* a DELETE has failed and the confirmation is still open on its record
C4_FailedAndStillConfirming ==
    /\ alertText = <<"Failed to delete record. Please try again.">>
    /\ deleteModalActive
    /\ recordToDelete # 0
    /\ CountType(inflight, "delete") = 0

\* C5: a search input, a change of the page size and any click on a sort
\* header (the same column or another) set currentPage to 1 before the list
\* request is built: the request they issue asks for page 1.
C5_QueryChangeResetsPage ==
    [][QueryChange => /\ currentPage' = 1
                      /\ inflight'[Len(inflight')].type = "list"
                      /\ inflight'[Len(inflight')].page = 1]_vars

\* a sort header has been clicked on page 2 and the list request asks for
\* page 2
C5_SortedOnSecondPage ==
    /\ currentPage = 2
    /\ sortColumn # Null
    /\ Len(inflight) = 1
    /\ inflight[1].type = "list"
    /\ inflight[1].hasSort
    /\ inflight[1].page = 2

\* C6: a click on the header of a column that is not sortColumn makes it
\* sortColumn with sortOrder asc, whatever the order was; a click on the
\* header of sortColumn flips sortOrder between asc and desc and keeps
\* sortColumn; the list request issued carries the column and the order.
C6_SortClickSelectsOrToggles ==
    [][\A c \in SortableColumns : sortBy(c) =>
          /\ sortColumn' = c
          /\ sortOrder' = (IF sortColumn # c THEN "asc"
                           ELSE IF sortOrder = "asc" THEN "desc" ELSE "asc")
          /\ inflight'[Len(inflight')].sort = c
          /\ inflight'[Len(inflight')].order = sortOrder']_vars

\* the sorted column's header has been clicked again: the order is desc
C6_ToggledToDesc ==
    /\ sortColumn = "name"
    /\ sortOrder = "desc"
    /\ Len(inflight) = 1
    /\ inflight[1].order = "desc"

\* C7: in every reachable state currentPage <= max(1, ceil(totalItems /
\* itemsPerPage)), that is: currentPage is 1 or the pages before it do not
\* hold all the items.
C7_PageWithinRange ==
    currentPage = 1 \/ (currentPage - 1) * itemsPerPage < totalItems

\* the only record of the last page has been deleted and the list reloaded
C7_LastPageEmptied ==
    /\ inflight = <<>>
    /\ Stored(db) = {1}
    /\ itemsPerPage = 1
    /\ currentPage = 2
    /\ totalItems = 1
    /\ data = <<>>

\* C8: after every successful list fetch, itemsPerPage >= 1 and totalItems
\* >= 0 and totalPages is the least number of pages that hold totalItems
\* items; it is 0 exactly when totalItems is 0.
C8_TotalPagesIsCeiling ==
    [][ListOk => /\ itemsPerPage' >= 1
                 /\ totalItems' >= 0
                 /\ totalPages' * itemsPerPage' >= totalItems'
                 /\ (totalPages' - 1) * itemsPerPage' < totalItems'
                 /\ (totalPages' = 0 <=> totalItems' = 0)]_vars

\* one item was counted for pages of ten: one page
C8_OneItemOnePage ==
    /\ tableDisplay = "table"
    /\ errorDisplay = "none"
    /\ itemsPerPage = 10
    /\ totalItems = 1
    /\ totalPages = 1

\* C9: after every pagination update (one follows every successful list
\* fetch) 'previous' is enabled iff currentPage > 1 and 'next' is enabled
\* iff currentPage < totalPages.
C9_ButtonsFollowPage ==
    [][ListOk => /\ ~prevDisabled' <=> currentPage' > 1
                 /\ ~nextDisabled' <=> currentPage' < totalPages']_vars

\* the list was loaded for a page past the last one and 'next' is enabled
C9_NextEnabledPastLastPage ==
    /\ inflight = <<>>
    /\ totalPages > 0
    /\ currentPage > totalPages
    /\ ~nextDisabled

\* C10: in every reachable state the form modal and the delete modal are
\* not both active.
C10_OneModalAtATime == ~(formModalActive /\ deleteModalActive)

\* the edit form has opened over an open delete confirmation
C10_EditOpenedOverDelete ==
    /\ formModalActive
    /\ deleteModalActive
    /\ currentRecord # NoRecord
    /\ recordToDelete # 0

\* the user's actions on the controls every view listens to
SharedControlEvent ==
    \/ \E q \in SearchInputs : SearchInput(q)
    \/ \E v \in PageSizeOptions : ItemsPerPageChange(v)
    \/ previousPage \/ nextPage
    \/ openAddModal
    \/ saveRecord
    \/ confirmDelete

\* C11: a user action on the page (search input, page-size change,
\* previous/next, add new, form submit, delete confirm) changes the fields
\* and issues requests of the current view only: the fields of the views
\* loaded before stay as they were and no request is issued for them.
C11_OnlyCurrentViewHandles ==
    [][SharedControlEvent => /\ earlier'.views = earlier.views
                             /\ earlier'.requests = earlier.requests]_vars

\* after the students view was left for another class, a search input has
\* set the students view's searchQuery and a list request of it is pending
C11_EarlierViewSearched ==
    /\ kind # "Student"
    /\ Len(earlier.views) = 1
    /\ earlier.views[1].kind = "Student"
    /\ earlier.views[1].searchQuery = <<"L", "e", "e">>
    /\ searchQuery = <<"L", "e", "e">>
    /\ Len(earlier.requests) > 0
    /\ earlier.requests[Len(earlier.requests)].url.hasQ

\* C12: 'edit row(id)' issues exactly one get(id) and opens nothing yet; when
\* the get succeeds the form modal opens on the fetched record; when it
\* fails the form modal and currentRecord stay as they were (Closed stays
\* Closed) and the error is reported.
C12_EditFetchesThenOpens ==
    /\ [][\A id \in Ids : openEditModal(id) =>
             /\ inflight' = Append(inflight, [NoRequest EXCEPT !.type = "get", !.id = id])
             /\ formModalActive' = formModalActive
             /\ currentRecord' = currentRecord]_vars
    /\ [][\A n \in 1..MaxInflight : GetResponse(n, TRUE) =>
             /\ formModalActive'
             /\ currentRecord' = [id |-> inflight[n].id, v |-> db[inflight[n].id]]
             /\ Len(inflight') = Len(inflight) - 1]_vars
    /\ [][\A n \in 1..MaxInflight : GetResponse(n, FALSE) =>
             /\ formModalActive' = formModalActive
             /\ currentRecord' = currentRecord
             /\ alertText' = <<"Failed to load record for editing">>
             /\ Len(inflight') = Len(inflight) - 1]_vars

\* the only edit request has failed: the form modal is not active, no record
\* is held and the failure is reported
C12_EditFailedStaysClosed ==
    /\ alertText = <<"Failed to load record for editing">>
    /\ ~formModalActive
    /\ currentRecord = NoRecord
    /\ inflight = <<>>

\* C13: the record of the open edit form is the response to the edit request
\* initiated last: the response to an edit request that was followed by an
\* edit request of another row neither opens the form nor sets
\* currentRecord.
C13_LatestEditRequestWins ==
    [][\A n \in 1..MaxInflight :
          (/\ GetResponse(n, TRUE)
           /\ \E m \in (n + 1)..Len(inflight) :
                  inflight[m].type = "get" /\ inflight[m].id # inflight[n].id)
          => currentRecord' = currentRecord]_vars

\* the edit form shows row 1 while the edit request of row 2, initiated
\* after that of row 1, has not been answered yet
C13_OlderRequestShown ==
    /\ formModalActive
    /\ currentRecord.id = 1
    /\ Len(inflight) = 1
    /\ inflight[1].type = "get" /\ inflight[1].id = 2

\* C14: a create or update request that fails leaves the form modal as it
\* was (it is not closed, currentRecord and the typed fields are kept), the
\* failure is reported, the collection and the rendered rows are unchanged,
\* and the failed request is the only one to leave the pending requests:
\* neither a reload nor a retry is issued.
C14_SaveFailureKeepsForm ==
    [][\A n \in 1..MaxInflight : WriteResponse(n, FALSE) =>
          /\ formModal' = formModal
          /\ alertText' = SaveFailedAlert(kind)
          /\ inflight' = Without(inflight, n)
          /\ db' = db
          /\ loaded' = loaded /\ query' = query /\ panels' = panels]_vars

\* the save of a filled-in form has failed: the modal is still open with
\* the typed fields, the failure is reported and nothing is pending
C14_SaveFailedFormOpen ==
    /\ alertText = SaveFailedAlert(kind)
    /\ formModalActive
    /\ form # 0
    /\ inflight = <<>>

\* C15: when a list request fails, loadData() ends with the error panel
\* shown, the loading spinner hidden and the table not displayed, and it
\* issues no further request.
C15_ListFailureShowsErrorOnly ==
    [][\A n \in 1..MaxInflight : ListResponse(n, FALSE, FALSE) =>
          /\ errorDisplay' = "flex"
          /\ loadingDisplay' = "none"
          /\ tableDisplay' = "none"
          /\ inflight' = Without(inflight, n)]_vars

\* the only list request has failed: the error panel and the table are
\* both displayed
C15_ErrorBesideTable ==
    /\ inflight = <<>>
    /\ errorDisplay = "flex"
    /\ loadingDisplay = "none"
    /\ tableDisplay = "table"

\* the write requests (POST, PUT, DELETE) among the pending requests
PendingWrites ==
    CountType(inflight, "post") + CountType(inflight, "put") + CountType(inflight, "delete")

\* C16: at most one write request (POST, PUT or DELETE) of the view is
\* pending at any time.
C16_OneWriteInFlight == PendingWrites <= 1

\* the add form was submitted twice before the first response: two POST
\* requests are pending
C16_TwoPostsPending ==
    /\ formModalActive
    /\ currentRecord = NoRecord
    /\ CountType(inflight, "post") = 2

\* the list request of the view's current query
CurrentUrl == ListUrl(currentPage, itemsPerPage, searchQuery, sortColumn, sortOrder)

\* C17: list requests are not sequenced: the successful response to any
\* pending list request, whatever requests were issued after it, writes its
\* rows to data and its count to totalItems and totalPages.
C17_AnyListResponseOverwrites ==
    [][\A n \in 1..MaxInflight : ListResponse(n, TRUE, TRUE) =>
          /\ data' = ServerPage(kind, db, inflight[n])
          /\ totalItems' = ParseInt(ServerTotalCount(kind, db, inflight[n]))[1]
          /\ totalPages' = Ceil(totalItems', itemsPerPage)]_vars

\* nothing is pending, no load has failed since the last request, and the
\* rows rendered are not the rows of the current query
C17_StaleRowsRendered ==
    /\ inflight = <<>>
    /\ loadingDisplay = "none" /\ tableDisplay = "table" /\ errorDisplay = "none"
    /\ data # ServerPage(kind, db, CurrentUrl)

\* the fields a validator reads, in the order of its rules
RuleOrder(k) ==
    CASE k = "Student" -> <<"name", "email", "phone", "gpa", "department", "enrollmentDate">>
      [] k = "Course" -> <<"code", "name", "credits", "department", "instructor">>
      [] k = "Instructor" -> <<"name", "email", "phone", "department", "specialization", "hireDate">>
      [] k = "Employee" -> <<"name", "email", "phone", "position", "department", "hireDate">>

\* the violations of the field f of d taken alone: those of the first valid
\* record of the class with d's value of f
ViolationsAlone(k, d, f) == Validate(k, [FormsOf(k)[1] EXCEPT ![f] = d[f]]).errors

\* the violations of every field of d taken alone, in rule order
RECURSIVE ViolationsInOrder(_, _, _)
ViolationsInOrder(k, d, n) ==
    IF n = 0 THEN <<>>
    ELSE ViolationsInOrder(k, d, n - 1) \o ViolationsAlone(k, d, RuleOrder(k)[n])

\* C18: a validator returns all violations at once: the errors of a record
\* are the violations of each of its fields taken alone, one message for a
\* violated rule, in the order of the rules, whatever the other fields
\* hold; and isValid is true exactly when errors is empty.
C18_AllViolationsInRuleOrder ==
    result.stage # "none" =>
        /\ result.isValid <=> (result.errors = <<>>)
        /\ result.errors = ViolationsInOrder(candidate.kind, candidate.data,
                                             Len(RuleOrder(candidate.kind)))
        /\ \A f \in DOMAIN candidate.data :
               Len(ViolationsAlone(candidate.kind, candidate.data, f)) <= 1
        /\ \A i, j \in 1..Len(result.errors) : i # j => result.errors[i] # result.errors[j]

\* a student record that violates every rule was validated: six messages
C18_SixViolationsAtOnce ==
    /\ candidate.kind = "Student"
    /\ result.stage = "validated"
    /\ ~result.isValid
    /\ Len(result.errors) = 6

\* s is local@domain.tld: no white space, one "@" after at least one
\* character, and a "." after it with a character on either side
EmailShape(s) ==
    /\ \A i \in 1..Len(s) : ~IsSpace(s[i])
    /\ \E i \in 2..Len(s) :
          /\ s[i] = "@"
          /\ \A j \in 1..Len(s) : s[j] = "@" => j = i
          /\ \E j \in (i + 2)..(Len(s) - 1) : s[j] = "."

\* s is a decimal numeral (sign, digits, at most two decimals) whose value,
\* in hundredths, is in lo..hi
DecimalWithin(s, lo, hi) ==
    \E sign \in {<<>>, <<"-">>}, n \in 1..Len(s) :
        LET u == SubSeq(s, Len(sign) + 1, Len(s))
            ip == SubSeq(u, 1, n - Len(sign))
            fp == SubSeq(u, n - Len(sign) + 2, Len(u))
            mag == 100 * DigitsValue(ip) + DigitsValue(SubSeq(fp \o <<"0", "0">>, 1, 2))
        IN /\ SubSeq(s, 1, Len(sign)) = sign
           /\ n >= Len(sign) + 1
           /\ ip # <<>> /\ \A i \in 1..Len(ip) : IsDigit(ip[i])
           /\ \/ n = Len(s)
              \/ /\ s[n + 1] = "."
                 /\ fp # <<>> /\ Len(fp) <= 2
                 /\ \A i \in 1..Len(fp) : IsDigit(fp[i])
           /\ (IF sign = <<>> THEN mag ELSE 0 - mag) \in lo..hi

\* the student records the specification accepts
StudentAccepted(d) ==
    /\ Len(Trim(d.name)) >= 3
    /\ EmailShape(d.email)
    /\ Len(Trim(d.phone)) >= 10
    /\ DecimalWithin(d.gpa, 0, 400)
    /\ d.department # <<>>
    /\ d.enrollmentDate # <<>>

\* C19: validateStudent accepts a record exactly when its name has at least
\* 3 characters after trim, its email has the shape local@domain.tld, its
\* phone has at least 10 characters after trim, its gpa is a number in
\* [0.0, 4.0], and its department and enrollmentDate are not empty; a gpa
\* of 4.5 is refused with the GPA-range message.
C19_StudentAcceptedIffRules ==
    (candidate.kind = "Student" /\ result.stage # "none") =>
        /\ result.isValid <=> StudentAccepted(candidate.data)
        /\ candidate.data.gpa = <<"4", ".", "5">> =>
              /\ ~result.isValid
              /\ \E i \in 1..Len(result.errors) :
                     result.errors[i] = "GPA must be between 0.0 and 4.0"

\* a student record whose only violation is its gpa of 4.5 was validated
C19_OnlyGpaRefused ==
    /\ candidate.kind = "Student"
    /\ result.stage = "validated"
    /\ candidate.data.gpa = <<"4", ".", "5">>
    /\ result.errors = <<"GPA must be between 0.0 and 4.0">>

\* s is 2 to 4 capital letters A-Z followed by exactly 3 digits
CodeShape(s) ==
    /\ Len(s) \in 5..7
    /\ \A i \in 1..(Len(s) - 3) : \E c \in 1..26 : s[i] = UpperCase[c]
    /\ \A i \in (Len(s) - 2)..Len(s) : \E c \in 1..10 : s[i] = Digits[c]

\* s in upper case is 2 to 4 letters A-Z followed by exactly 3 digits
CodeShapeAnyCase(s) ==
    /\ Len(s) \in 5..7
    /\ \A i \in 1..(Len(s) - 3) :
          \E c \in 1..26 : s[i] = UpperCase[c] \/ s[i] = LowerCase[c]
    /\ \A i \in (Len(s) - 2)..Len(s) : \E c \in 1..10 : s[i] = Digits[c]

\* t is s with every small letter a-z replaced by its capital
IsUpperCased(s, t) ==
    /\ Len(t) = Len(s)
    /\ \A i \in 1..Len(s) :
          IF \E c \in 1..26 : s[i] = LowerCase[c]
          THEN \E c \in 1..26 : s[i] = LowerCase[c] /\ t[i] = UpperCase[c]
          ELSE t[i] = s[i]

\* C20: validateCourse accepts a course code exactly when the code in upper
\* case is 2 to 4 letters A-Z followed by 3 digits, and the body a save
\* writes (POST or PUT) carries the code in upper case.
C20_CodeAcceptedUpperCased ==
    (candidate.kind = "Course" /\ result.stage # "none") =>
        /\ (\A i \in 1..Len(result.errors) :
               result.errors[i] # "Course code must be in format: CS101, ENG201, BUS301, etc.")
           <=> CodeShapeAnyCase(candidate.data.code)
        /\ result.stage = "converted" =>
              /\ IsUpperCased(candidate.data.code, result.body.code)
              /\ CodeShape(result.body.code)

\* the course typed with the code cs101 passed validation and its body
\* carries CS101
C20_LowerCaseCodeWritten ==
    /\ candidate.kind = "Course"
    /\ candidate.data.code = <<"c", "s", "1", "0", "1">>
    /\ result.stage = "converted"
    /\ result.body.code = <<"C", "S", "1", "0", "1">>

\* the day of the evaluation and the floor date, as the form writes dates
EvaluationDay == <<"2","0","2","4","-","0","6","-","1","5">>
FloorDay == <<"2","0","0","0","-","0","1","-","0","1">>

\* the date a is an earlier day than the date b, both YYYY-MM-DD
DayBefore(a, b) ==
    \E i \in 1..10 :
        /\ \A j \in 1..(i - 1) : a[j] = b[j]
        /\ a[i] # "-" /\ b[i] # "-"
        /\ DigitVal(a[i]) < DigitVal(b[i])

HasError(msg) == \E i \in 1..Len(result.errors) : result.errors[i] = msg

\* C21: for Employee and Instructor a hire date after the day of the
\* evaluation is refused with 'cannot be in the future', a hire date before
\* 2000-01-01 is refused with 'too old', and a hire date from 2000-01-01 to
\* the day of the evaluation raises no hire-date message.
C21_HireDateWindow ==
    (/\ candidate.kind \in {"Employee", "Instructor"}
     /\ result.stage # "none"
     /\ candidate.data.hireDate # <<>>) =>
        LET hd == candidate.data.hireDate
            future == HasError("Hire date cannot be in the future")
            old == HasError("Hire date seems too old (before 2000)")
        IN /\ DayBefore(EvaluationDay, hd) => ~result.isValid /\ future
           /\ DayBefore(hd, FloorDay) => ~result.isValid /\ old
           /\ (~DayBefore(EvaluationDay, hd) /\ ~DayBefore(hd, FloorDay)) =>
                 ~future /\ ~old /\ ~HasError("Please enter hire date")

\* an employee whose only violation is a hire date of the day after the
\* evaluation was validated
C21_TomorrowRefused ==
    /\ candidate.kind = "Employee"
    /\ candidate.data.hireDate = <<"2","0","2","4","-","0","6","-","1","6">>
    /\ result.stage = "validated"
    /\ result.errors = <<"Hire date cannot be in the future">>

\* a persisted course carries the code c
CodePersisted(c) == \E i \in Stored(db) : Body("Course", db[i]).code = c

\* C22: a valid save of the course add form first issues the lookup of the
\* upper-cased code and no POST; when the lookup reports a persisted course
\* with that code, no POST follows and the form modal stays as it is; a
\* valid save of the course edit form issues no lookup.
C22_LookupBeforeCreateOnly ==
    /\ [][(SaveValid /\ kind = "Course" /\ currentRecord = NoRecord) =>
             /\ Len(inflight') = Len(inflight) + 1
             /\ inflight'[Len(inflight')].type = "lookup"
             /\ DecodeURIComponent(inflight'[Len(inflight')].q)
                    = ToUpperCase(FormData.code)
             /\ SubSeq(inflight', 1, Len(inflight)) = inflight]_vars
    /\ [][\A n \in 1..MaxInflight :
             (/\ LookupResponse(n, TRUE)
              /\ CodePersisted(DecodeURIComponent(inflight[n].q))) =>
                /\ inflight' = Without(inflight, n)
                /\ formModal' = formModal
                /\ db' = db]_vars
    /\ [][(SaveValid /\ kind = "Course" /\ currentRecord # NoRecord) =>
             /\ CountType(inflight', "lookup") = CountType(inflight, "lookup")
             /\ inflight'[Len(inflight')].type = "put"]_vars

\* the add form of the courses view was saved with a code that a persisted
\* course carries: the lookup has answered, nothing is pending, the form is
\* still open
C22_ExistingCodeRefused ==
    /\ kind = "Course"
    /\ formModalActive
    /\ currentRecord = NoRecord
    /\ form # 0
    /\ alertText = <<"Course code ", <<"C","S","1","0","1">>, " already exists!">>
    /\ inflight = <<>>

\* C23: a click on 'previous' moves to the page before and issues one list
\* request for it when currentPage > 1, a click on 'next' moves to the page
\* after when currentPage < totalPages, and a click outside these guards
\* changes nothing and issues nothing; so neither control leaves
\* currentPage below 1 or above totalPages, requests pending or not.
C23_PageControlsGuarded ==
    /\ [][previousPage =>
             IF currentPage > 1
             THEN /\ currentPage' = currentPage - 1
                  /\ currentPage' >= 1
                  /\ inflight' = Append(inflight, CurrentUrl')
             ELSE UNCHANGED <<query, loaded, panels, inflight>>]_vars
    /\ [][nextPage =>
             IF currentPage < totalPages
             THEN /\ currentPage' = currentPage + 1
                  /\ currentPage' <= totalPages
                  /\ inflight' = Append(inflight, CurrentUrl')
             ELSE UNCHANGED <<query, loaded, panels, inflight>>]_vars

\* 'next' and then 'previous' were clicked before either list request was
\* answered
C23_ClickedWhilePending ==
    /\ Len(inflight) = 2
    /\ inflight[1].type = "list" /\ inflight[1].page = 2
    /\ inflight[2].type = "list" /\ inflight[2].page = 1
    /\ currentPage = 1

\* C24: every list request carries _page and _limit, those of the view when
\* it is issued; it carries q exactly when the search text is not empty,
\* and _sort with _order exactly when a sort column is set, so that _order
\* is never sent without _sort.
C24_ListRequestParameters ==
    [][Len(inflight') = Len(inflight) + 1 =>
          LET r == inflight'[Len(inflight')]
          IN r.type = "list" =>
               /\ r.page = currentPage' /\ r.page >= 1
               /\ r.limit = itemsPerPage' /\ r.limit >= 1
               /\ r.hasQ <=> (searchQuery' # <<>>)
               /\ IF r.hasQ THEN DecodeURIComponent(r.q) = searchQuery' ELSE r.q = <<>>
               /\ r.hasSort <=> (sortColumn' # Null)
               /\ IF r.hasSort
                  THEN r.sort = sortColumn' /\ r.order = sortOrder'
                  ELSE r.sort = "" /\ r.order = ""]_vars

\* a list request with search text and no sort column is pending, the sort
\* order of the view being "asc"
C24_SearchWithoutSort ==
    /\ Len(inflight) > 0
    /\ inflight[Len(inflight)].type = "list"
    /\ inflight[Len(inflight)].hasQ
    /\ ~inflight[Len(inflight)].hasSort
    /\ sortColumn = Null /\ sortOrder = "asc"

\* C25: nothing is cached: every search input, page-size change and
\* sort-header click, and every 'previous' or 'next' click that passes its
\* guard, issues exactly one list request, built from the query fields as
\* the event leaves them, whether that query was fetched before or not.
C25_EveryQueryEventFetches ==
    [][(\/ QueryChange
        \/ (previousPage /\ currentPage > 1)
        \/ (nextPage /\ currentPage < totalPages))
       => inflight' = Append(inflight, CurrentUrl')]_vars

\* the search text was typed and cleared again: the second of two pending
\* requests is for the query whose rows the view already holds
C25_RefetchOfHeldRows ==
    /\ Len(inflight) = 2
    /\ inflight[2] = CurrentUrl
    /\ inflight[1] # CurrentUrl
    /\ data # <<>>
    /\ data = ServerPage(kind, db, CurrentUrl)

\* C26: after a successful list fetch totalItems is the number the
\* X-Total-Count header holds when the response has the header, 0 included,
\* and the number of records of the response when it has none.
C26_TotalItemsFromHeaderOrRows ==
    /\ [][\A n \in 1..MaxInflight : ListResponse(n, TRUE, TRUE) =>
             totalItems' = DigitsValue(ServerTotalCount(kind, db, inflight[n]))]_vars
    /\ [][\A n \in 1..MaxInflight : ListResponse(n, TRUE, FALSE) =>
             /\ data' = ServerPage(kind, db, inflight[n])
             /\ totalItems' = Len(data')]_vars

\* a list of one record per page was answered without X-Total-Count:
\* totalItems is 1 while the collection holds two records
C26_RowsCountedWithoutHeader ==
    /\ inflight = <<>>
    /\ searchQuery = <<>>
    /\ Cardinality(Stored(db)) = 2
    /\ Len(data) = 1
    /\ totalItems = 1

\* C27: closing the form modal clears currentRecord and the form, closing
\* the delete modal clears recordToDelete; neither issues a request or a
\* reload, and both leave the collection, the query fields, the loaded rows
\* and the panels as they were.  From AddOpen, EditOpen or DeleteConfirm the
\* workflow is Closed afterwards.
C27_CloseHasNoStoreEffect ==
    /\ [][closeModal =>
             /\ ~formModalActive' /\ currentRecord' = NoRecord /\ form' = 0
             /\ (~deleteModalActive => ~deleteModalActive' /\ recordToDelete' = 0)
             /\ UNCHANGED <<db, inflight, query, loaded, panels>>]_vars
    /\ [][closeDeleteModal =>
             /\ ~deleteModalActive' /\ recordToDelete' = 0
             /\ (~formModalActive => ~formModalActive' /\ currentRecord' = NoRecord)
             /\ UNCHANGED <<db, inflight, query, loaded, panels>>]_vars

\* the delete was confirmed twice and then cancelled before either DELETE
\* was answered: the modal is closed, no record is held, and the two
\* requests are the only ones pending
C27_CancelledWhilePending ==
    /\ ~deleteModalActive /\ recordToDelete = 0
    /\ ~formModalActive /\ currentRecord = NoRecord
    /\ Len(inflight) = MaxInflight
    /\ \A n \in 1..Len(inflight) : inflight[n].type = "delete"

\* C28: a valid save made with the add form issues a POST whose body has no
\* id, at once or after the course-code lookup, and never a PUT; a valid
\* save made with the edit form issues a PUT to the id of the record
\* fetched for editing, the body carrying that id, and never a POST.
C28_WriteFollowsWorkflow ==
    /\ [][(SaveValid /\ kind # "Course" /\ currentRecord = NoRecord) =>
             LET r == inflight'[Len(inflight')]
             IN r.type = "post" /\ r.id = 0 /\ r.bodyId = 0]_vars
    /\ [][(SaveValid /\ currentRecord # NoRecord) =>
             LET r == inflight'[Len(inflight')]
             IN r.type = "put" /\ r.id = currentRecord.id /\ r.bodyId = currentRecord.id]_vars
    /\ [][\A n \in 1..MaxInflight :
             (LookupResponse(n, TRUE) /\ Len(inflight') = Len(inflight)) =>
                LET r == inflight'[Len(inflight')]
                IN r.type = "post" /\ r.id = 0 /\ r.bodyId = 0]_vars

\* the add form of the courses view was saved and closed and the edit form
\* of course 1 opened while the code lookup of the save is still pending
C28_LookupPendingInEditOpen ==
    /\ kind = "Course"
    /\ formModalActive
    /\ currentRecord.id = 1
    /\ \E n \in 1..Len(inflight) : inflight[n].type = "lookup"

\* C29: for Employee and Instructor a hire date that is not empty and does
\* not parse to a date makes the record invalid: a message about the hire
\* date is among the errors and the data is not handed on to be written.
C29_UnparsedHireDateRefused ==
    (/\ candidate.kind \in {"Employee", "Instructor"}
     /\ result.stage # "none"
     /\ candidate.data.hireDate # <<>>
     /\ ParseDate(candidate.data.hireDate) = NaN) =>
        /\ ~result.isValid
        /\ result.stage # "converted"
        /\ \/ HasError("Please enter hire date")
           \/ HasError("Hire date cannot be in the future")
           \/ HasError("Hire date seems too old (before 2000)")

\* an employee whose hire date reads 'soon' passed the validation without
\* a message and became the body of a write
C29_TextHireDateWritten ==
    /\ candidate.kind = "Employee"
    /\ candidate.data.hireDate = <<"s", "o", "o", "n">>
    /\ result.stage = "converted"
    /\ result.errors = <<>>
    /\ result.body.hireDate = <<"s", "o", "o", "n">>

\* the number of characters of s from its first to its last character
\* that is no white space
CharsAfterTrim(s) ==
    LET inked == {i \in 1..Len(s) : ~IsSpace(s[i])}
    IN IF inked = {} THEN 0
       ELSE (CHOOSE i \in inked : \A j \in inked : j <= i)
            - (CHOOSE i \in inked : \A j \in inked : i <= j) + 1

\* the validation of the candidate raised no message about its name
NameAccepted ==
    /\ ~HasError("Name must be at least 3 characters long")
    /\ ~HasError("Name must be at least 5 characters long (include title: Dr., Prof., etc.)")
    /\ ~HasError("Course name must be at least 5 characters long")
SpecializationAccepted == ~HasError("Specialization must be at least 3 characters long")

\* C30 as amended: after trim, the name of a student or an employee is
\* accepted if and only if it has at least 3 characters, the name of an
\* instructor and the name of a course if and only if it has at least 5,
\* and the specialization of an instructor if and only if it has at least 3.
C30_MinimumLengthsInstructorFive ==
    result.stage # "none" =>
        /\ candidate.kind \in {"Student", "Employee"} =>
              (NameAccepted <=> CharsAfterTrim(candidate.data.name) >= 3)
        /\ candidate.kind \in {"Instructor", "Course"} =>
              (NameAccepted <=> CharsAfterTrim(candidate.data.name) >= 5)
        /\ candidate.kind = "Instructor" =>
              (SpecializationAccepted
                  <=> CharsAfterTrim(candidate.data.specialization) >= 3)

\* an instructor named 'Dr A', four characters, was refused for the name
\* alone
C30_FourLetterInstructorRefused ==
    /\ candidate.kind = "Instructor"
    /\ candidate.data.name = <<"D", "r", " ", "A">>
    /\ result.stage = "validated"
    /\ result.errors =
          <<"Name must be at least 5 characters long (include title: Dr., Prof., etc.)">>

\* C30 as stated: after trim, the name of a student, an employee or an
\* instructor is accepted if and only if it has at least 3 characters, the
\* name of a course if and only if it has at least 5, and the specialization
\* of an instructor if and only if it has at least 3.
C30_MinimumLengths ==
    result.stage # "none" =>
        /\ candidate.kind \in {"Student", "Employee", "Instructor"} =>
              (NameAccepted <=> CharsAfterTrim(candidate.data.name) >= 3)
        /\ candidate.kind = "Course" =>
              (NameAccepted <=> CharsAfterTrim(candidate.data.name) >= 5)
        /\ candidate.kind = "Instructor" =>
              (SpecializationAccepted
                  <=> CharsAfterTrim(candidate.data.specialization) >= 3)

\* the whole numbers from 1 to 6 as a number control writes them
WholeCredits == {<<"1">>, <<"2">>, <<"3">>, <<"4">>, <<"5">>, <<"6">>}

\* C31: the credit hours of a course are accepted if and only if the value
\* submitted is a whole number from 1 to 6; any other value, 3.5 among them,
\* raises the credit-hours message and the data is not handed on to be
\* written.
C31_CreditsWholeInRange ==
    (candidate.kind = "Course" /\ result.stage # "none") =>
        /\ ~HasError("Credit hours must be between 1 and 6")
              <=> candidate.data.credits \in WholeCredits
        /\ candidate.data.credits \notin WholeCredits =>
              ~result.isValid /\ result.stage # "converted"

\* a course with 3.5 credit hours passed the validation and became the
\* body of a write with 3 credit hours
C31_HalfCreditWrittenAsThree ==
    /\ candidate.kind = "Course"
    /\ candidate.data.credits = <<"3", ".", "5">>
    /\ result.stage = "converted"
    /\ result.body.credits = Num(3)

LoadingShown == loadingDisplay = "flex" /\ tableDisplay = "none"

\* C33: while a list request stays pending the loading indicator stays
\* visible and the table hidden: neither a user action in the view nor the
\* response to another request hides the indicator before that request is
\* answered.
C33_PendingListKeepsLoading ==
    /\ [][((\E n \in 1..Len(inflight) : inflight[n].type = "list") /\ LoadingShown
              /\ (QueryEvent \/ FormEvent \/ DeleteEvent)) => LoadingShown']_vars
    /\ [][\A n, m \in 1..MaxInflight :
             (/\ n # m
              /\ n \in 1..Len(inflight)
              /\ inflight[n].type = "list"
              /\ LoadingShown
              /\ ListResponse(m, TRUE, TRUE)) => LoadingShown']_vars

\* the first list request of the view is still pending, the user has
\* searched since, and the answer to the search has hidden the indicator
\* and shown the table
C33_EscapedBySearching ==
    /\ Len(inflight) = 1
    /\ inflight[1].type = "list"
    /\ ~inflight[1].hasQ
    /\ searchQuery # <<>>
    /\ data = ServerPage(kind, db, CurrentUrl)
    /\ loadingDisplay = "none"
    /\ tableDisplay = "table"

\* the pending request n is a POST of a course with the code of request m
PostOfSameCode(n, m) ==
    /\ n \in 1..Len(inflight)
    /\ m \in 1..Len(inflight)
    /\ inflight[m].type = "lookup"
    /\ inflight[n].type = "post"
    /\ Body("Course", inflight[n].body).code = Body("Course", inflight[m].body).code

\* C34: the check of the course code and the create are separate steps: a
\* lookup that reports no course with the code is followed by the POST even
\* while a POST of a course with that code is pending, and a POST is stored
\* under a new id even when a course with its code is persisted by then.
C34_CheckThenCreateNotAtomic ==
    /\ [][\A n, m \in 1..MaxInflight :
             (/\ kind = "Course"
              /\ PostOfSameCode(n, m)
              /\ ServerByCode(kind, db, inflight[m].q) = <<>>
              /\ LookupResponse(m, TRUE)) =>
                 /\ Len(inflight') = Len(inflight)
                 /\ inflight'[Len(inflight')].type = "post"
                 /\ inflight'[Len(inflight')].body = inflight[m].body]_vars
    /\ [][\A n \in 1..MaxInflight :
             (/\ kind = "Course"
              /\ n \in 1..Len(inflight)
              /\ inflight[n].type = "post"
              /\ CodePersisted(Body("Course", inflight[n].body).code)
              /\ WriteResponse(n, TRUE)) =>
                 /\ Stored(db') = Stored(db) \cup {NextId(db)}
                 /\ db'[NextId(db)] = inflight[n].body]_vars

\* two persisted courses carry the same code
C34_TwoCoursesShareCode ==
    /\ kind = "Course"
    /\ \E i, j \in Stored(db) :
          i # j /\ Body("Course", db[i]).code = Body("Course", db[j]).code

\* the pending request n is a write submitted from another form than the
\* one now open: a POST while a record is being edited, or a PUT of another
\* record than the one being edited
WriteOfOtherModal(n) ==
    /\ n \in 1..Len(inflight)
    /\ formModalActive
    /\ \/ inflight[n].type = "post" /\ currentRecord # NoRecord
       \/ inflight[n].type = "put" /\ inflight[n].id # currentRecord.id

\* C35: the edit form is entered from the closed state only: the response
\* to a get(id) that arrives while the form modal is open, for adding or
\* for editing, leaves the form, its fields and currentRecord as they are;
\* and the success of a save closes the form it was submitted from only: it
\* leaves a form opened since then open, with its fields and currentRecord.
C35_OnlyListedModalTransitions ==
    /\ [][\A n \in 1..MaxInflight :
             (formModalActive /\ GetResponse(n, TRUE)) =>
                 /\ formModalActive'
                 /\ currentRecord' = currentRecord
                 /\ form' = form]_vars
    /\ [][\A n \in 1..MaxInflight :
             (WriteOfOtherModal(n) /\ WriteResponse(n, TRUE)) =>
                 /\ formModalActive'
                 /\ currentRecord' = currentRecord
                 /\ form' = form]_vars

\* the edit form of record 2 is open while the PUT of record 1, submitted
\* from the edit form of record 1, is still pending
C35_SavePendingUnderOtherForm ==
    /\ formModalActive
    /\ currentRecord.id = 2
    /\ \E n \in 1..Len(inflight) : inflight[n].type = "put" /\ inflight[n].id = 1

\* C36: on the create path of a course a lookup that fails, by a transport
\* error or a status that is no success, is not followed by the POST: the
\* save ends there and issues no request.
C36_FailedLookupIssuesNoPost ==
    [][\A n \in 1..MaxInflight :
          (kind = "Course" /\ LookupResponse(n, FALSE)) =>
              /\ inflight' = Without(inflight, n)
              /\ CountType(inflight', "post") = CountType(inflight, "post")]_vars

\* the POST of a course with the code of course 1 is pending while course 1
\* is persisted as it was when the view was loaded
C36_PostOfPersistedCode ==
    /\ kind = "Course"
    /\ db[1] = 1
    /\ \E n \in 1..Len(inflight) : inflight[n].type = "post" /\ inflight[n].body = 1

\* the list request of the current query for the page p
PageUrl(p) == ListUrl(p, itemsPerPage, searchQuery, sortColumn, sortOrder)

\* the rows held are those of the page p of the current query
HoldsPage(p) == p >= 1 /\ data # <<>> /\ data = ServerPage(kind, db, PageUrl(p))

\* C37: a list request that fails leaves data, totalItems and totalPages as
\* they were, and leaves the query state agreeing with them: when the
\* request of a previous or next click fails, the rows held being those of
\* the page the click left, currentPage is that page again.
C37_FailedListKeepsConsistency ==
    /\ [][\A n \in 1..MaxInflight : ListResponse(n, FALSE, FALSE) =>
             /\ data' = data
             /\ totalItems' = totalItems
             /\ totalPages' = totalPages]_vars
    /\ [][\A n \in 1..MaxInflight, p \in {currentPage - 1, currentPage + 1} :
             (/\ Len(inflight) = 1
              /\ inflight[1] = CurrentUrl
              /\ HoldsPage(p)
              /\ ListResponse(n, FALSE, FALSE)) => currentPage' = p]_vars

\* the request of a next click has failed: the view is on page 2 of 2 with
\* the row of page 1 in its table and the error shown
C37_PageAheadOfRows ==
    /\ inflight = <<>>
    /\ errorDisplay = "flex"
    /\ itemsPerPage = 1
    /\ sortColumn = Null
    /\ currentPage = 2
    /\ HoldsPage(1)

\* C38: in every state of a view an inactive form modal goes with a null
\* currentRecord and an inactive delete modal with a null recordToDelete;
\* the form modal comes to be active with a null currentRecord by the add
\* button only (AddOpen) and with a currentRecord by the successful answer
\* to a get(id) only (EditOpen), the record being the one asked for.
C38_ModalsAndRecordsAgree ==
    /\ [](~formModalActive => currentRecord = NoRecord)
    /\ [](~deleteModalActive => recordToDelete = 0)
    /\ [][(formModalActive' /\ (~formModalActive \/ currentRecord' # currentRecord)) =>
             IF currentRecord' = NoRecord
             THEN openAddModal
             ELSE \E n \in 1..MaxInflight :
                      GetResponse(n, TRUE) /\ currentRecord'.id = inflight[n].id]_vars

\* record 1 was deleted, which closed the delete modal, and the edit form
\* of record 2 is open
C38_DeletedThenEditing ==
    /\ db[1] = 0
    /\ ~deleteModalActive /\ recordToDelete = 0
    /\ formModalActive /\ currentRecord.id = 2

\* a list request of the view is pending
ListPending == \E n \in 1..Len(inflight) : inflight[n].type = "list"

\* C39: the loading indicator of a view is visible exactly while a list
\* request of the view is pending: with two loads overlapping, the answer
\* to one leaves the indicator visible and the table hidden until the other
\* is answered, and with no list request pending the indicator is hidden.
C39_LoadingIffListPending ==
    /\ loadingDisplay = "flex" <=> ListPending
    /\ ListPending => tableDisplay = "none"

\* two loads overlapped and the first was answered: the request of the
\* current query is still pending, the indicator is hidden and the table
\* shows the rows of the query before
C39_HiddenWhileLatestPending ==
    /\ Len(inflight) = 1
    /\ inflight[1] = CurrentUrl
    /\ inflight[1].hasQ
    /\ loadingDisplay = "none"
    /\ tableDisplay = "table"
    /\ data # ServerPage(kind, db, CurrentUrl)

====
